---- MODULE Spec2Model ----
(***************************************************************************)
(* Model of the multi-series dataset store of the charting application.    *)
(*                                                                         *)
(*   Spec     PlottingModel of src/abc.py: the series list `datasets`, its *)
(*            shadow copy `original_datasets`, the loaded file and the     *)
(*            signals each operation emits.                                *)
(*   SpecApp  PlottingApp of src/v3.1.py, src/v3.2.1.py and src/v3.4.2.py: *)
(*            the same fields kept on the window object, the editable grid *)
(*            `data_table` and the flag `is_updating_table`.               *)
(*                                                                         *)
(* Python lists are objects: two series that were built from one list      *)
(* object see each other's in-place edits.  The lists therefore live in a  *)
(* heap (`heap`, object id -> contents) and a series holds object ids.     *)
(***************************************************************************)
EXTENDS Integers, Sequences, FiniteSets, TLC

VARIABLES
    datasets,           \* PlottingModel.datasets: sequence of series records
    original_datasets,  \* PlottingModel.original_datasets
    heap,               \* the list objects the series refer to
    excel_data,         \* 0 = None, i = Files[i]
    data_source,        \* 'manual' | 'file'
    plot_color_hex,     \* settings['plot_color_hex']
    op,                 \* the operation that produced this state
    emitted,            \* the signals that operation emitted, in order
    raised,             \* TRUE when that operation ended with an exception
    nops,               \* number of operations performed so far
    version,            \* the program that runs: "abc", "v3.1", "v3.2.1", "v3.4.2"
    data_table,         \* PlottingApp.data_table: the grid
    is_updating_table,  \* PlottingApp.is_updating_table
    last_sort_info,     \* PlottingApp.last_sort_info
    sort_indicator,     \* the header's sort indicator: [col, asc]
    line_color_hex,     \* PlottingApp.line_color_hex (v3.4.2)
    point_color_hex,    \* PlottingApp.point_color_hex (v3.4.2)
    ignored,            \* cell-changed notifications the last handler ignored
    rebuilds,           \* notifications that passed the guard while the flag was held
    built,              \* rebuilds of the series from the grid in the last handler
    captured,           \* the series as the last handler other than a sort click left them
    smooth_pc,          \* update_plot's smoothing: "idle", "pool", "drawn"
    pool_tasks,         \* the argument tuples pickled for the pool's workers
    pool_results,       \* what each worker has returned, Pending before it has
    smooth_results,     \* update_plot's dict smooth_results, NoCurve = no key
    widgets,            \* what the style widgets of the window hold
    is_updating_ui,     \* PlottingApp.is_updating_ui
    template,           \* the JSON object load_template last read, <<>> = none
    self_x_data,        \* v1.0, v2.2: PlottingApp.x_data
    self_y_data,        \* v1.0, v2.2: PlottingApp.y_data
    update_timer,       \* v1.0, v2.2: the single-shot QTimer: [active, left]
    chart,              \* the x and y the last redraw read
    since,              \* time since the last redraw request, up to Delay
    fired,              \* redraws since the last redraw request
    nreq,               \* redraw requests made so far
    colors_data,        \* v1.0: PlottingApp.colors_data
    connections,        \* v1.0: connections of cellClicked to pick_color_for_cell
    invoked             \* calls of pick_color_for_cell the last gesture made

appvars == <<version, data_table, is_updating_table, last_sort_info,
             sort_indicator, line_color_hex, point_color_hex, ignored,
             rebuilds, built, captured>>

\* the store and the window
modelvars == <<datasets, original_datasets, heap, excel_data, data_source,
               plot_color_hex, op, emitted, raised, nops, appvars>>

\* the state of a redraw in progress
smoothvars == <<smooth_pc, pool_tasks, pool_results, smooth_results>>

\* the style settings a template holds, the colours apart
templatevars == <<widgets, is_updating_ui, template>>

\* the debounced redraw of v1.0 and v2.2
timervars == <<self_x_data, self_y_data, update_timer, chart, since, fired,
               nreq>>

\* the grid's click handler of v1.0
clickvars == <<colors_data, connections, invoked>>

auxvars == <<smoothvars, templatevars, timervars, clickvars>>

\* everything a redraw leaves alone
unsmoothed == <<modelvars, templatevars, timervars, clickvars>>

\* everything the debounce timer leaves alone
untimed == <<modelvars, smoothvars, templatevars, clickvars>>

vars == <<modelvars, auxvars>>

-----------------------------------------------------------------------------
(* Bounds *)

MaxOps == 3         \* operations in one run of the program
MaxRows == 3        \* add_row is offered while every list is shorter
FileRows == 2       \* rows of the files that can be loaded
MaxSeries == 2      \* Y columns selected / series in a table snapshot
MaxAppOps == 3      \* user gestures in one run of the window
MaxRequests == 4    \* redraw requests in one run of the debounced window
Delay == 3          \* update_timer.start(300), in units of 100 ms

-----------------------------------------------------------------------------
(* Python values held in x and y *)

PyInt(n) == [k |-> "int", n |-> n, s |-> ""]
PyStr(s) == [k |-> "str", n |-> 0, s |-> s]
PyFloat(n) == [k |-> "float", n |-> n, s |-> ""]

\* isinstance(v, (int, float))
IsNumber(v) == v.k \in {"int", "float"}

\* last_x + 1
PlusOne(v) == [v EXCEPT !.n = @ + 1]

DefaultColor == "#1f77b4"
DefaultPointColor == "#ff7f0e"
Black == "#000000"
Red == "#ff0000"
Green == "#00ff00"
Colors == {DefaultColor, Red, Green}

-----------------------------------------------------------------------------
(* Python list operations *)

Range(s) == {s[i] : i \in 1..Len(s)}

\* [v] * n   (n <= 0 gives the empty list)
Repeat(v, n) == [i \in 1..(IF n > 0 THEN n ELSE 0) |-> v]

\* del l[i], 0 <= i < len(l)
DelAt(l, i) == SubSeq(l, 1, i) \o SubSeq(l, i + 2, Len(l))

\* l.insert(i, v): an index past the end appends, a negative index counts
\* from the end and stops at the front
InsertAt(l, i, v) ==
    LET j == IF i > Len(l) THEN Len(l)
             ELSE IF i >= 0 THEN i
             ELSE IF Len(l) + i > 0 THEN Len(l) + i ELSE 0
    IN  SubSeq(l, 1, j) \o <<v>> \o SubSeq(l, j + 1, Len(l))

\* sorted(row_indices, reverse=True)
RECURSIVE SortedDesc(_)
SortedDesc(S) ==
    IF S = {} THEN <<>>
    ELSE LET m == CHOOSE a \in S : \A b \in S : b <= a
         IN  <<m>> \o SortedDesc(S \ {m})

-----------------------------------------------------------------------------
(* The heap: list objects and references to them.  A machine state m is    *)
(* [h |-> heap, err |-> an exception is propagating].                      *)

Machine(h) == [h |-> h, err |-> FALSE]

\* del ref[i]: IndexError when i is past the end
HDel(m, r, i) ==
    IF m.err THEN m
    ELSE IF i < Len(m.h[r]) THEN [m EXCEPT !.h[r] = DelAt(@, i)]
    ELSE [m EXCEPT !.err = TRUE]

\* ref.append(v)
HAppend(m, r, v) ==
    IF m.err THEN m ELSE [m EXCEPT !.h[r] = Append(@, v)]

\* ref.insert(to, ref.pop(from)): IndexError when from is past the end
HMove(m, r, from, to) ==
    IF m.err THEN m
    ELSE IF from < Len(m.h[r])
         THEN [m EXCEPT !.h[r] = InsertAt(DelAt(@, from), to, @[from + 1])]
         ELSE [m EXCEPT !.err = TRUE]

RefsOfDs(d) == <<d.x, d.y, d.colors, d.line_segment_colors>>

RECURSIVE RefsOf(_)
RefsOf(dss) ==
    IF dss = <<>> THEN <<>> ELSE RefsOfDs(Head(dss)) \o RefsOf(Tail(dss))

RECURSIVE Dedup(_, _)
Dedup(s, acc) ==
    IF s = <<>> THEN acc
    ELSE IF Head(s) \in Range(acc) THEN Dedup(Tail(s), acc)
    ELSE Dedup(Tail(s), Append(acc, Head(s)))

\* the live objects, in order of first reference
LiveRefs(dss, odss) ==
    SelectSeq(Dedup(RefsOf(dss) \o RefsOf(odss), <<>>), LAMBDA r : r # 0)

\* reference 0 stands for a key the series dict does not have
IndexOf(s, r) == IF r = 0 THEN 0 ELSE CHOOSE i \in 1..Len(s) : s[i] = r

Deref(h, r) == IF r = 0 THEN <<>> ELSE h[r]

Renumber(dss, ord) ==
    [i \in 1..Len(dss) |->
        [dss[i] EXCEPT !.x = IndexOf(ord, @), !.y = IndexOf(ord, @),
                       !.colors = IndexOf(ord, @),
                       !.line_segment_colors = IndexOf(ord, @)]]

\* Objects no series refers to are freed; the rest keep their identity.
Collect(dss, odss, h) ==
    LET ord == LiveRefs(dss, odss)
    IN  [ds  |-> Renumber(dss, ord),
         ods |-> Renumber(odss, ord),
         h   |-> [i \in 1..Len(ord) |-> h[ord[i]]]]

\* What a reader of the store sees of a series
View(d, h) ==
    [name |-> d.name, x |-> h[d.x], y |-> h[d.y], colors |-> h[d.colors],
     primary_color |-> d.primary_color,
     line_segment_colors |-> Deref(h, d.line_segment_colors)]

Views(dss, h) == [i \in 1..Len(dss) |-> View(dss[i], h)]

-----------------------------------------------------------------------------
(* The files load_file can read: every column of a DataFrame has the same  *)
(* number of rows.  X, A, B and C hold numbers; L is a column of text      *)
(* cells (dtype object), one of them a numeral typed as text.              *)

Files ==
    << [X |-> [i \in 1..FileRows |-> PyInt(i)],
        L |-> [i \in 1..FileRows |-> PyStr(IF i = 1 THEN "r" ELSE "7")],
        A |-> [i \in 1..FileRows |-> PyInt(10 * i)],
        B |-> [i \in 1..FileRows |-> PyInt(20 * i)],
        C |-> [i \in 1..FileRows |-> PyInt(30 * i)]] >>

\* the X column the combo box can hold: a column of the file, no column, or
\* a column of a file that is no longer the loaded one
XColumns == {"X", "L", "", "Q"}

YColumns == <<"A", "B", "C">>

\* the selections of Y columns the list widget can hold, in column order
YSelections ==
    {s \in UNION {[1..n -> 1..Len(YColumns)] : n \in 0..MaxSeries} :
        \A i \in 1..Len(s) - 1 : s[i] < s[i + 1]}

YNames(sel) == [i \in 1..Len(sel) |-> YColumns[sel[i]]]

-----------------------------------------------------------------------------
NoTable == [ncols |-> 3, rows |-> <<>>, headers |-> <<"Y data">>]

InitWindow ==
    /\ data_table = NoTable
    /\ is_updating_table = FALSE
    /\ last_sort_info = [col |-> -1, count |-> 0]
    /\ sort_indicator = [col |-> -1, asc |-> TRUE]
    /\ line_color_hex = DefaultColor
    /\ point_color_hex = DefaultPointColor
    /\ ignored = 0
    /\ rebuilds = 0
    /\ built = 0
    /\ captured = <<>>

\* the widgets as the constructor fills them: an empty title, a line width
\* of 2.0, no rotation of the tick labels
DefaultWidgets ==
    [title |-> PyStr(""), line_width |-> PyFloat(2),
     x_tick_rotation |-> PyInt(0), y_tick_rotation |-> PyInt(0)]

\* no redraw is in progress, no template was loaded
InitAux ==
    /\ smooth_pc = "idle"
    /\ pool_tasks = <<>>
    /\ pool_results = <<>>
    /\ smooth_results = <<>>
    /\ widgets = DefaultWidgets
    /\ is_updating_ui = FALSE
    /\ template = <<>>
    /\ self_x_data = <<>>
    /\ self_y_data = <<>>
    /\ update_timer = [active |-> FALSE, left |-> 0]
    /\ chart = [x |-> <<>>, y |-> <<>>]
    /\ since = Delay
    /\ fired = 1
    /\ nreq = 0
    /\ colors_data = <<>>
    /\ connections = 0
    /\ invoked = 0

Init ==
    /\ version = "abc"
    /\ InitWindow
    /\ InitAux
    /\ datasets = <<>>
    /\ original_datasets = <<>>
    /\ heap = <<>>
    /\ excel_data = 0
    /\ data_source = "manual"
    /\ plot_color_hex = DefaultColor
    /\ op = [name |-> "init", from |-> 0, to |-> 0, rows |-> {}, kind |-> "",
             color |-> "", x_col |-> "", y_cols |-> <<>>, lines |-> <<>>]
    /\ emitted = <<>>
    /\ raised = FALSE
    /\ nops = 0

\* the last call and its arguments
Op(n) == [name |-> n, from |-> 0, to |-> 0, rows |-> {}, kind |-> "",
          color |-> "", x_col |-> "", y_cols |-> <<>>, lines |-> <<>>]

\* one more operation of the run
Step ==
    /\ nops < MaxOps
    /\ nops' = nops + 1
    /\ UNCHANGED <<appvars, auxvars>>

\* commit the store after an operation
Store(dss, odss, h) ==
    LET c == Collect(dss, odss, h)
    IN  /\ datasets' = c.ds
        /\ original_datasets' = c.ods
        /\ heap' = c.h

-----------------------------------------------------------------------------
(* load_file *)

load_file(f) ==
    /\ f \in 1..Len(Files)
    /\ excel_data' = f
    /\ data_source' = "file"
    /\ Step
    /\ op' = Op("load_file")
    /\ emitted' = <<"file_loaded">>
    /\ raised' = FALSE
    /\ UNCHANGED <<datasets, original_datasets, heap, plot_color_hex>>

\* an unsupported extension, a corrupt file or any other read error
load_file_fails ==
    /\ Step
    /\ op' = Op("load_file_fails")
    /\ emitted' = <<"error_occurred">>
    /\ raised' = FALSE
    /\ UNCHANGED <<datasets, original_datasets, heap, excel_data,
                   data_source, plot_color_hex>>

-----------------------------------------------------------------------------
(* update_data_from_file *)

\* lines 110-118 with colors sized like line_segment_colors
RECURSIVE FileSeriesShortColors(_, _, _, _, _)
FileSeriesShortColors(df, y_cols, xref, h, acc) ==
    IF y_cols = <<>> THEN [ds |-> acc, h |-> h]
    ELSE LET y_col == Head(y_cols)
             num_points == Len(h[xref])
             n == Len(h)
             d == [name |-> y_col, x |-> xref, y |-> n + 1, colors |-> n + 2,
                   primary_color |-> plot_color_hex,
                   line_segment_colors |-> n + 3]
             h2 == h \o << df[y_col],
                           Repeat(plot_color_hex, num_points - 1),
                           Repeat(plot_color_hex, num_points - 1) >>
         IN  FileSeriesShortColors(df, Tail(y_cols), xref, h2, Append(acc, d))

\* the series built for the selected columns; x_data is one list object
\* (at heap index base + 1) that every series refers to
RECURSIVE FileSeries(_, _, _, _, _)
FileSeries(df, y_cols, xref, h, acc) ==
    IF y_cols = <<>> THEN [ds |-> acc, h |-> h]
    ELSE LET y_col == Head(y_cols)
             num_points == Len(h[xref])
             n == Len(h)
             d == [name |-> y_col, x |-> xref, y |-> n + 1, colors |-> n + 2,
                   primary_color |-> plot_color_hex,
                   line_segment_colors |-> n + 3]
             h2 == h \o << df[y_col],
                           Repeat(plot_color_hex, num_points),
                           Repeat(plot_color_hex, num_points - 1) >>
         IN  FileSeries(df, Tail(y_cols), xref, h2, Append(acc, d))

\* line 109 left out: the loop appends to the series already there
FileBaseKept(dss) == dss

\* self.datasets = [] (line 109): the series list the loop appends to
FileBase(dss) == <<>>

\* line 102 without `not x_col or not y_cols`
NoFileOnly(x_col, y_cols) == excel_data = 0

\* the guard of line 102
NothingToRead(x_col, y_cols) ==
    excel_data = 0 \/ x_col = "" \/ y_cols = <<>>

update_data_from_file(x_col, y_cols) ==
    /\ Step
    /\ op' = [Op("update_data_from_file") EXCEPT !.x_col = x_col,
                                                 !.y_cols = y_cols]
    /\ UNCHANGED <<excel_data, data_source, plot_color_hex>>
    /\ IF NothingToRead(x_col, y_cols)
       THEN /\ Store(<<>>, original_datasets, heap)
            /\ emitted' = <<"data_changed">>
            /\ raised' = FALSE
       ELSE LET df == Files[excel_data]
            IN  IF x_col \in DOMAIN df /\ Range(y_cols) \subseteq DOMAIN df
                THEN LET h1 == Append(heap, df[x_col])
                         r == FileSeries(df, y_cols, Len(h1), h1,
                                         FileBase(datasets))
                     IN  /\ Store(r.ds, r.ds, r.h)
                         /\ emitted' = <<"data_changed">>
                         /\ raised' = FALSE
                \* KeyError: caught at line 121
                ELSE /\ Store(<<>>, original_datasets, heap)
                     /\ emitted' = <<"error_occurred", "data_changed">>
                     /\ raised' = FALSE

-----------------------------------------------------------------------------
(* update_data_from_table *)

SeriesNames == <<"A", "B", "C">>

\* a well-formed grid snapshot: r rows, k (Y, colour) column pairs, every
\* column a list of its own with one entry per row
TableData(r, k, c) ==
    [x |-> [i \in 1..r |-> PyInt(i)],
     y_cols |-> [j \in 1..k |->
                    [name |-> SeriesNames[j],
                     y |-> [i \in 1..r |-> PyInt(10 * j * i)],
                     colors |-> [i \in 1..r |->
                                    IF i = 1 THEN c ELSE DefaultColor]]]]

RECURSIVE TableSeries(_, _, _, _, _)
TableSeries(y_cols, xref, h, acc, default) ==
    IF y_cols = <<>> THEN [ds |-> acc, h |-> h]
    ELSE LET y_col_data == Head(y_cols)
             colors == y_col_data.colors
             n == Len(h)
             d == [name |-> y_col_data.name, x |-> xref, y |-> n + 1,
                   colors |-> n + 2,
                   primary_color |->
                       IF colors # <<>> THEN colors[1] ELSE default,
                   line_segment_colors |-> n + 3]
             h2 == h \o << y_col_data.y, colors,
                           IF colors # <<>>
                           THEN Repeat(colors[1], Len(h[xref]) - 1)
                           ELSE <<>> >>
         IN  TableSeries(Tail(y_cols), xref, h2, Append(acc, d), default)

update_data_from_table(table_data) ==
    LET h1 == Append(heap, table_data.x)
        r == TableSeries(table_data.y_cols, Len(h1), h1, <<>>, plot_color_hex)
    IN  /\ data_source' = "manual"
        /\ Store(r.ds, r.ds, r.h)
        /\ Step
        /\ op' = Op("update_data_from_table")
        /\ emitted' = <<"data_changed">>
        /\ raised' = FALSE
        /\ UNCHANGED <<excel_data, plot_color_hex>>

-----------------------------------------------------------------------------
(* add_row *)

\* lines 158-159
NewX(xl) ==
    LET last_x == IF xl # <<>> THEN xl[Len(xl)] ELSE PyInt(0)
    IN  IF IsNumber(last_x) THEN PlusOne(last_x) ELSE PyInt(0)

\* the body of `for ds in self.datasets` (lines 158-164)
AddRowDs(m, d) ==
    LET m1 == HAppend(m, d.x, NewX(m.h[d.x]))
        m2 == HAppend(m1, d.y, PyInt(0))
        m3 == HAppend(m2, d.colors, d.primary_color)
    IN  IF Len(m3.h[d.x]) > 1
        THEN HAppend(m3, d.line_segment_colors, d.primary_color)
        ELSE m3

RECURSIVE AddRowLoop(_, _, _)
AddRowLoop(dss, i, m) ==
    IF i > Len(dss) THEN m
    ELSE AddRowLoop(dss, i + 1, AddRowDs(m, dss[i]))

\* every list still has room for the rows one call appends
HasRoom == \A r \in 1..Len(heap) : Len(heap[r]) < MaxRows

\* lines 150-155 with one segment colour for the single row
DefaultSeriesWithSegment(h, color) ==
    [ds |-> << [name |-> "data1", x |-> Len(h) + 1, y |-> Len(h) + 2,
                colors |-> Len(h) + 3, primary_color |-> color,
                line_segment_colors |-> Len(h) + 4] >>,
     h |-> h \o << <<PyInt(0)>>, <<PyInt(0)>>, <<color>>, <<color>> >>]

\* lines 150-155: the series appended to an empty store, its four lists new
DefaultSeries(h, color) ==
    [ds |-> << [name |-> "data1", x |-> Len(h) + 1, y |-> Len(h) + 2,
                colors |-> Len(h) + 3, primary_color |-> color,
                line_segment_colors |-> Len(h) + 4] >>,
     h |-> h \o << <<PyInt(0)>>, <<PyInt(0)>>, <<color>>, <<>> >>]

add_row ==
    /\ HasRoom
    /\ Step
    /\ op' = Op("add_row")
    /\ emitted' = <<"data_changed">>
    /\ raised' = FALSE
    /\ UNCHANGED <<excel_data, data_source, plot_color_hex>>
    /\ IF datasets = <<>>
       THEN LET r == DefaultSeries(heap, plot_color_hex)
            IN  Store(r.ds, r.ds, r.h)
       ELSE LET m == AddRowLoop(datasets, 1, Machine(heap))
            IN  Store(datasets, datasets, m.h)

-----------------------------------------------------------------------------
(* remove_rows *)

\* the body of `for dataset in self.datasets` (lines 173-177)
RemoveRowDs(m, d, row) ==
    LET m3 == HDel(HDel(HDel(m, d.x, row), d.y, row), d.colors, row)
    IN  IF m3.err THEN m3
        ELSE IF row < Len(m3.h[d.line_segment_colors])
             THEN HDel(m3, d.line_segment_colors, row)
             ELSE m3

RECURSIVE RemoveRowAll(_, _, _, _)
RemoveRowAll(dss, i, row, m) ==
    IF i > Len(dss) \/ m.err THEN m
    ELSE RemoveRowAll(dss, i + 1, row, RemoveRowDs(m, dss[i], row))

\* `for row in sorted(row_indices, reverse=True)` (lines 170-177)
RECURSIVE RemoveRowsLoop(_, _, _)
RemoveRowsLoop(rows, dss, m) ==
    IF rows = <<>> \/ m.err THEN m
    ELSE LET row == Head(rows)
         IN  IF dss # <<>> /\ 0 <= row /\ row < Len(m.h[dss[1].x])
             THEN RemoveRowsLoop(Tail(rows), dss, RemoveRowAll(dss, 1, row, m))
             ELSE RemoveRowsLoop(Tail(rows), dss, m)

remove_rows(row_indices) ==
    LET m == RemoveRowsLoop(SortedDesc(row_indices), datasets, Machine(heap))
    IN  /\ Step
        /\ op' = [Op("remove_rows") EXCEPT !.rows = row_indices]
        /\ raised' = m.err
        /\ emitted' = IF m.err THEN <<>> ELSE <<"data_changed">>
        /\ Store(datasets, IF m.err THEN original_datasets ELSE datasets, m.h)
        /\ UNCHANGED <<excel_data, data_source, plot_color_hex>>

-----------------------------------------------------------------------------
(* move_row *)

\* the body of `for ds in self.datasets` (lines 186-188)
MoveRowDs(m, d, from_index, to_index) ==
    HMove(HMove(HMove(m, d.x, from_index, to_index),
                d.y, from_index, to_index),
          d.colors, from_index, to_index)

RECURSIVE MoveRowLoop(_, _, _, _, _)
MoveRowLoop(dss, i, from_index, to_index, m) ==
    IF i > Len(dss) \/ m.err THEN m
    ELSE MoveRowLoop(dss, i + 1, from_index, to_index,
                     MoveRowDs(m, dss[i], from_index, to_index))

\* the guard of line 183 without its test of to_index
MoveInRangeFromOnly(from_index, to_index) ==
    /\ datasets # <<>>
    /\ 0 <= from_index /\ from_index < Len(heap[datasets[1].x])

\* the guard of line 183
MoveInRange(from_index, to_index) ==
    /\ datasets # <<>>
    /\ 0 <= from_index /\ from_index < Len(heap[datasets[1].x])
    /\ 0 <= to_index /\ to_index < Len(heap[datasets[1].x])

move_row(from_index, to_index) ==
    /\ Step
    /\ op' = [Op("move_row") EXCEPT !.from = from_index, !.to = to_index]
    /\ UNCHANGED <<excel_data, data_source, plot_color_hex>>
    /\ IF ~MoveInRange(from_index, to_index)
       THEN /\ raised' = FALSE
            /\ emitted' = <<>>
            /\ UNCHANGED <<datasets, original_datasets, heap>>
       ELSE LET m == MoveRowLoop(datasets, 1, from_index, to_index,
                                 Machine(heap))
            IN  /\ raised' = m.err
                /\ emitted' = IF m.err THEN <<>> ELSE <<"data_changed">>
                /\ Store(datasets,
                         IF m.err THEN original_datasets ELSE datasets, m.h)

-----------------------------------------------------------------------------
(* clear_all *)

\* clear_all without line 199: the settings are left as they are
clear_all_keeps_settings ==
    /\ datasets' = <<>>
    /\ original_datasets' = <<>>
    /\ heap' = <<>>
    /\ excel_data' = 0
    /\ data_source' = "manual"
    /\ plot_color_hex' = plot_color_hex
    /\ Step
    /\ op' = Op("clear_all")
    /\ emitted' = <<"data_changed", "settings_changed">>
    /\ raised' = FALSE

clear_all ==
    /\ datasets' = <<>>
    /\ original_datasets' = <<>>
    /\ heap' = <<>>
    /\ excel_data' = 0
    /\ data_source' = "manual"
    /\ plot_color_hex' = DefaultColor
    /\ Step
    /\ op' = Op("clear_all")
    /\ emitted' = <<"data_changed", "settings_changed">>
    /\ raised' = FALSE

-----------------------------------------------------------------------------
(* update_point_color *)

\* seq[i] of Python: a negative index counts from the end; 0 = IndexError,
\* otherwise the 1-based position
PyIndex(len, i) ==
    IF 0 <= i /\ i < len THEN i + 1
    ELSE IF i < 0 /\ -len <= i THEN len + i + 1
    ELSE 0

\* ref[i] = v
HSet(m, r, i, v) ==
    IF m.err THEN m
    ELSE LET j == PyIndex(Len(m.h[r]), i)
         IN  IF j = 0 THEN [m EXCEPT !.err = TRUE]
             ELSE [m EXCEPT !.h[r][j] = v]

\* lines 221-225 with the segment written at pt_index instead of pt_index - 1
PointColorSameIndex(m, d, pt_index, color, artist_type) ==
    IF artist_type = "line"
    THEN IF pt_index > 0 /\ pt_index <= Len(m.h[d.line_segment_colors])
         THEN HSet(m, d.line_segment_colors, pt_index, color)
         ELSE m
    ELSE IF artist_type \in {"scatter", "bar"}
            /\ pt_index < Len(m.h[d.colors])
         THEN HSet(m, d.colors, pt_index, color)
         ELSE m

\* lines 221-225, for the series d = self.datasets[ds_index]
PointColor(m, d, pt_index, color, artist_type) ==
    IF artist_type = "line"
    THEN IF pt_index > 0 /\ pt_index <= Len(m.h[d.line_segment_colors])
         THEN HSet(m, d.line_segment_colors, pt_index - 1, color)
         ELSE m
    ELSE IF artist_type \in {"scatter", "bar"}
            /\ pt_index < Len(m.h[d.colors])
         THEN HSet(m, d.colors, pt_index, color)
         ELSE m

update_point_color(ds_index, pt_index, color, artist_type) ==
    /\ Step
    /\ op' = [Op("update_point_color") EXCEPT !.from = ds_index,
                                              !.to = pt_index,
                                              !.kind = artist_type,
                                              !.color = color]
    /\ UNCHANGED <<excel_data, data_source, plot_color_hex>>
    /\ IF ~(ds_index < Len(datasets))
       THEN /\ raised' = FALSE
            /\ emitted' = <<>>
            /\ UNCHANGED <<datasets, original_datasets, heap>>
       ELSE LET j == PyIndex(Len(datasets), ds_index)
                m == IF j = 0 THEN [Machine(heap) EXCEPT !.err = TRUE]
                     ELSE PointColor(Machine(heap), datasets[j], pt_index,
                                     color, artist_type)
            IN  /\ raised' = m.err
                /\ emitted' = IF m.err THEN <<>> ELSE <<"data_changed">>
                /\ Store(datasets, original_datasets, m.h)

-----------------------------------------------------------------------------
(* update_all_colors *)

\* lines 232-233 without line 234: line_segment_colors is left as it was
RECURSIVE AllColorsLoopNoSegments(_, _, _, _)
AllColorsLoopNoSegments(dss, i, h, new_color) ==
    IF i > Len(dss) THEN [ds |-> dss, h |-> h]
    ELSE LET d == dss[i]
             d2 == [d EXCEPT !.primary_color = new_color,
                             !.colors = Len(h) + 1]
             h2 == Append(h, Repeat(new_color, Len(h[d.colors])))
         IN  AllColorsLoopNoSegments([dss EXCEPT ![i] = d2], i + 1, h2,
                                     new_color)

\* the body of `for ds in self.datasets` (lines 232-234): colors and
\* line_segment_colors are bound to new lists
RECURSIVE AllColorsLoop(_, _, _, _)
AllColorsLoop(dss, i, h, new_color) ==
    IF i > Len(dss) THEN [ds |-> dss, h |-> h]
    ELSE LET d == dss[i]
             n == Len(h)
             d2 == [d EXCEPT !.primary_color = new_color,
                             !.colors = n + 1,
                             !.line_segment_colors = n + 2]
             h2 == h \o << Repeat(new_color, Len(h[d.colors])),
                           Repeat(new_color, Len(h[d.line_segment_colors])) >>
         IN  AllColorsLoop([dss EXCEPT ![i] = d2], i + 1, h2, new_color)

update_all_colors(new_color) ==
    LET r == AllColorsLoop(datasets, 1, heap, new_color)
    IN  /\ Step
        /\ op' = [Op("update_all_colors") EXCEPT !.color = new_color]
        /\ plot_color_hex' = new_color
        /\ Store(r.ds, original_datasets, r.h)
        /\ emitted' = <<"data_changed", "settings_changed">>
        /\ raised' = FALSE
        /\ UNCHANGED <<excel_data, data_source>>

-----------------------------------------------------------------------------
SeriesIndices == -1..MaxSeries
ArtistTypes == {"line", "scatter"}
RowIndexSets == SUBSET (0..MaxRows)
RowIndices == -1..MaxRows

Next ==
    \/ \E f \in 1..Len(Files) : load_file(f)
    \/ load_file_fails
    \/ \E x_col \in XColumns, sel \in YSelections :
           update_data_from_file(x_col, YNames(sel))
    \/ \E r \in 0..FileRows, k \in 0..MaxSeries, c \in {DefaultColor, Red} :
           update_data_from_table(TableData(r, k, c))
    \/ add_row
    \/ \E S \in RowIndexSets : remove_rows(S)
    \/ \E f \in RowIndices, t \in RowIndices : move_row(f, t)
    \/ \E ds_index \in SeriesIndices, pt_index \in RowIndices,
          artist_type \in ArtistTypes :
           update_point_color(ds_index, pt_index, Red, artist_type)
    \/ update_all_colors(Green)
    \/ clear_all

Spec == Init /\ [][Next]_vars

-----------------------------------------------------------------------------
(* PlottingApp: the window of v3.1, v3.2.1 and v3.4.2.                     *)
(*                                                                         *)
(* A handler runs to completion and calls other handlers synchronously     *)
(* (the grid delivers itemChanged inside setItem), so a handler is a       *)
(* function on the record `a` of the window's fields; a.err is an          *)
(* exception propagating out of the handler.                               *)
(*                                                                         *)
(* Of the toolkit the model takes: setItem and setBackground on an item of *)
(* the grid emit itemChanged; a header click sorts the rows by the texts   *)
(* of the column (stable, rows without an item last) before on_table_sort  *)
(* runs; setSortIndicator emits sortIndicatorChanged.  The grid's own      *)
(* re-sorting of a row whose item is set while a sort column is active is  *)
(* left out.                                                               *)

AppVersions == {"v3.1", "v3.2.1", "v3.4.2"}

MaxNum == 99        \* the numerals a cell can hold

\* str(v)
Str(v) ==
    IF v.k = "int" THEN ToString(v.n)
    ELSE IF v.k = "float" THEN ToString(v.n) \o ".0"
    ELSE v.s

IntTexts == {ToString(n) : n \in 0..MaxNum}

FloatTexts == {ToString(n) \o ".0" : n \in 0..MaxNum}

\* the texts float() accepts
IsNumText(t) == t \in IntTexts \/ t \in FloatTexts

NumTable ==
    [t \in IntTexts \cup FloatTexts |->
        CHOOSE n \in 0..MaxNum : t = ToString(n) \/ t = ToString(n) \o ".0"]

NumOf(t) == NumTable[t]

\* try: float(t)  except ValueError: t      (v3.1 line 825, v3.2.1 line 1036)
ParseFloat(t) == IF IsNumText(t) THEN PyFloat(NumOf(t)) ELSE PyStr(t)

\* float(t) if t.replace('.', '', 1).lstrip('-').isdigit() else t  (v3.4.2)
ParseDigits(t) == IF IsNumText(t) THEN PyFloat(NumOf(t)) ELSE PyStr(t)

\* a == b of Python on the values of a cell
PyEq(v, w) ==
    IF IsNumber(v) /\ IsNumber(w) THEN v.n = w.n
    ELSE v.k = w.k /\ v.s = w.s

(* The grid: rows of cells; a cell is an item or nothing.  headers holds   *)
(* for each (Y, colour) column pair the Y header without its "Y: " prefix. *)

NoItem == [item |-> FALSE, text |-> "", bg |-> ""]
TextItem(t) == [item |-> TRUE, text |-> t, bg |-> Black]
ColorItem(c) == [item |-> TRUE, text |-> "", bg |-> c]

RowCount(tbl) == Len(tbl.rows)

\* setRowCount(n)
SetRowCount(tbl, n) ==
    [tbl EXCEPT !.rows =
        [i \in 1..n |-> IF i <= Len(tbl.rows) THEN tbl.rows[i]
                        ELSE [c \in 1..tbl.ncols |-> NoItem]]]

\* setColumnCount(n)
SetColumnCount(tbl, n) ==
    [tbl EXCEPT !.ncols = n,
                !.rows = [i \in 1..Len(tbl.rows) |->
                            [c \in 1..n |-> IF c <= tbl.ncols
                                            THEN tbl.rows[i][c] ELSE NoItem]]]

\* the item at (r, c), both 0-based
Item(tbl, r, c) == tbl.rows[r + 1][c + 1]

PutItem(tbl, r, c, cell) == [tbl EXCEPT !.rows[r + 1][c + 1] = cell]

\* (columnCount() - 1) // 2
Pairs(tbl) == (tbl.ncols - 1) \div 2

TextOf(cell) == IF cell.item THEN cell.text ELSE "0"

Pack ==
    [ds |-> datasets, ods |-> original_datasets, h |-> heap,
     tbl |-> data_table, upd |-> is_updating_table, src |-> data_source,
     sort |-> last_sort_info, ind |-> sort_indicator,
     plot |-> plot_color_hex, line |-> line_color_hex,
     point |-> point_color_hex, xl |-> excel_data,
     err |-> FALSE, ignored |-> 0, rebuilds |-> 0, built |-> 0,
     msg |-> <<>>]

Raise(a) == [a EXCEPT !.err = TRUE]

-----------------------------------------------------------------------------
(* PlottingApp.update_data_from_table: the slot of itemChanged *)

ColumnValues(tbl, c, Parse(_)) ==
    [r \in 1..RowCount(tbl) |-> Parse(TextOf(tbl.rows[r][c + 1]))]

\* v3.4.2 lines 1245-1258
RECURSIVE Rebuild342(_, _, _, _)
Rebuild342(a, i, acc, h) ==
    IF i >= Pairs(a.tbl) THEN [ds |-> acc, h |-> h]
    ELSE LET y_col == 1 + i * 2
             c_col == 2 + i * 2
             x_data == ColumnValues(a.tbl, 0, ParseDigits)
             y_data == ColumnValues(a.tbl, y_col, ParseDigits)
             colors == [r \in 1..RowCount(a.tbl) |->
                          IF Item(a.tbl, r - 1, c_col).item
                          THEN Item(a.tbl, r - 1, c_col).bg ELSE a.point]
             has_old == i < Len(a.ds)
             n == Len(h)
             new_ds == [name |-> a.tbl.headers[i + 1],
                        x |-> n + 1, y |-> n + 2, colors |-> n + 3,
                        primary_color |->
                            IF has_old THEN a.ds[i + 1].primary_color
                            ELSE a.line,
                        line_segment_colors |->
                            IF has_old THEN a.ds[i + 1].line_segment_colors
                            ELSE 0]
             h2 == h \o << SubSeq(x_data, 1, Len(y_data)), y_data, colors >>
         IN  Rebuild342(a, i + 1, Append(acc, new_ds), h2)

\* v3.2.1 lines 1033-1051
RECURSIVE Rebuild321(_, _, _, _)
Rebuild321(a, i, acc, h) ==
    IF i >= Pairs(a.tbl) THEN [ds |-> acc, h |-> h]
    ELSE LET y_col == 1 + i * 2
             c_col == 2 + i * 2
             x_data == ColumnValues(a.tbl, 0, ParseFloat)
             y_data == ColumnValues(a.tbl, y_col, ParseFloat)
             colors == [r \in 1..RowCount(a.tbl) |->
                          IF Item(a.tbl, r - 1, c_col).item
                          THEN Item(a.tbl, r - 1, c_col).bg ELSE a.plot]
             primary == IF colors # <<>> THEN colors[1] ELSE a.plot
             has_old == i < Len(a.ds)
             n == Len(h)
             new_ds == [name |-> a.tbl.headers[i + 1],
                        x |-> n + 1, y |-> n + 2, colors |-> n + 3,
                        primary_color |-> primary,
                        line_segment_colors |->
                            IF has_old THEN a.ds[i + 1].line_segment_colors
                            ELSE n + 4]
             h2 == h \o << x_data, y_data, colors >>
                     \o (IF has_old THEN <<>>
                         ELSE << Repeat(primary, Len(x_data) - 1) >>)
         IN  Rebuild321(a, i + 1, Append(acc, new_ds), h2)

\* v3.1 lines 855-862: one x_data list for every series, no primary_color
\* and no line_segment_colors
RECURSIVE Rebuild31(_, _, _, _, _)
Rebuild31(a, i, acc, h, xref) ==
    IF i >= Pairs(a.tbl) THEN [ds |-> acc, h |-> h]
    ELSE LET y_col == 1 + i * 2
             y_data == ColumnValues(a.tbl, y_col, ParseFloat)
             colors == [r \in 1..RowCount(a.tbl) |-> a.plot]
             n == Len(h)
             new_ds == [name |-> a.tbl.headers[i + 1],
                        x |-> xref, y |-> n + 1, colors |-> n + 2,
                        primary_color |-> "", line_segment_colors |-> 0]
         IN  Rebuild31(a, i + 1, Append(acc, new_ds),
                       h \o << y_data, colors >>, xref)

\* v3.1 lines 845-847: QBrush has neither isValid() nor name(), so reading
\* the colour of an existing colour item raises AttributeError
HasColorItem(tbl) ==
    \E r \in 1..RowCount(tbl) : \E i \in 0..(tbl.ncols - 2) :
        i % 2 = 0 /\ i + 3 <= tbl.ncols /\ tbl.rows[r][i + 3].item

\* a handler without the guard
NeverSuppressed(a) == FALSE

\* the guard every version starts with: `if self.is_updating_table: return`
Suppressed(a) == a.upd

\* 1 when a rebuild runs while update_table holds the flag
WhileHeld(a) == IF a.upd THEN 1 ELSE 0

\* self.datasets = new_datasets and, from v3.2.1 on, the shadow copy
Rebuilt(ver, a, r) ==
    [a EXCEPT !.src = "manual", !.ds = r.ds, !.h = r.h,
              !.ods = IF ver = "v3.1" THEN @ ELSE r.ds,
              !.rebuilds = @ + WhileHeld(a), !.built = @ + 1]

app_update_data_from_table(ver, a) ==
    IF a.err THEN a
    ELSE IF Suppressed(a) THEN [a EXCEPT !.ignored = @ + 1]
    ELSE IF ver = "v3.4.2" THEN Rebuilt(ver, a, Rebuild342(a, 0, <<>>, a.h))
    ELSE IF ver = "v3.2.1" THEN Rebuilt(ver, a, Rebuild321(a, 0, <<>>, a.h))
    ELSE IF HasColorItem(a.tbl)
    THEN Raise([a EXCEPT !.src = "manual", !.rebuilds = @ + WhileHeld(a)])
    ELSE Rebuilt(ver, a,
             Rebuild31(a, 0, <<>>,
                       Append(a.h, ColumnValues(a.tbl, 0, ParseFloat)),
                       Len(a.h) + 1))

\* setItem(r, c, item): the grid stores the item and emits itemChanged
SetItem(ver, a, r, c, cell) ==
    IF a.err THEN a
    ELSE app_update_data_from_table(ver, [a EXCEPT !.tbl = PutItem(@, r, c, cell)])

-----------------------------------------------------------------------------
(* PlottingApp.update_table: the grid is repopulated from datasets *)

Names(dss) == [i \in 1..Len(dss) |-> dss[i].name]

\* setColumnCount and setHorizontalHeaderLabels for the series list
SetColumns(tbl, dss) ==
    [SetColumnCount(tbl, 1 + Len(dss) * 2) EXCEPT !.headers = Names(dss)]

RECURSIVE MaxLenX(_, _)
MaxLenX(dss, h) ==
    IF dss = <<>> THEN 0
    ELSE LET n == Len(h[Head(dss).x])
             m == MaxLenX(Tail(dss), h)
         IN  IF n > m THEN n ELSE m

\* setItem of the Y text of series d in the row: y[row] is read first
SetY(ver, a, d, row, y_col) ==
    IF a.err THEN a
    ELSE IF row >= Len(a.h[d.y]) THEN Raise(a)
    ELSE SetItem(ver, a, row, y_col, TextItem(Str(a.h[d.y][row + 1])))

\* setItem of the colour item of series d in the row: colors[row] is read
\* first
SetColor(ver, a, d, row, color_col) ==
    IF a.err THEN a
    ELSE IF row >= Len(a.h[d.colors]) THEN Raise(a)
    ELSE SetItem(ver, a, row, color_col, ColorItem(a.h[d.colors][row + 1]))

\* v3.1 lines 1180-1193, v3.2.1 lines 850-863: both values are read before
\* the two items are set
RECURSIVE FillSeriesOld(_, _, _, _, _)
FillSeriesOld(ver, a, dss, i, row) ==
    IF i > Len(dss) \/ a.err THEN a
    ELSE IF row >= Len(a.h[dss[i].y]) \/ row >= Len(a.h[dss[i].colors])
    THEN Raise(a)
    ELSE FillSeriesOld(ver,
             SetColor(ver, SetY(ver, a, dss[i], row, 1 + (i - 1) * 2),
                      dss[i], row, 2 + (i - 1) * 2),
             dss, i + 1, row)

\* v3.4.2 line 1024: the X item comes from the first series
SetX342(a, dss, i, row) ==
    IF i = 1
    THEN SetItem("v3.4.2", a, row, 0, TextItem(Str(a.h[dss[i].x][row + 1])))
    ELSE a

\* v3.4.2 lines 1022-1030: a series shorter than the row is skipped; the Y
\* item is set before colors[row] is read
RECURSIVE FillSeries342(_, _, _, _)
FillSeries342(a, dss, i, row) ==
    IF i > Len(dss) \/ a.err THEN a
    ELSE IF ~(row < Len(a.h[dss[i].x])) THEN FillSeries342(a, dss, i + 1, row)
    ELSE FillSeries342(
             SetColor("v3.4.2",
                      SetY("v3.4.2", SetX342(a, dss, i, row), dss[i], row,
                           1 + (i - 1) * 2),
                      dss[i], row, 2 + (i - 1) * 2),
             dss, i + 1, row)

\* `for row in range(row_count)`
RECURSIVE FillRows(_, _, _, _)
FillRows(ver, a, row, row_count) ==
    IF row >= row_count \/ a.err THEN a
    ELSE IF ver = "v3.4.2"
    THEN FillRows(ver, FillSeries342(a, a.ds, 1, row), row + 1, row_count)
    ELSE FillRows(ver,
             FillSeriesOld(ver,
                 SetItem(ver, a, row, 0,
                         TextItem(Str(a.h[a.ds[1].x][row + 1]))),
                 a.ds, 1, row),
             row + 1, row_count)

\* v3.1 line 1157 returns from the empty-store branch without clearing the
\* flag; v3.2.1 line 831 and v3.4.2 line 1031 clear it
FlagAfterEmpty(ver) == ver = "v3.1"

\* self.is_updating_table = True
Hold(a) == [a EXCEPT !.upd = TRUE]

\* self.is_updating_table = False, the statement an exception skips
Release(a) == IF a.err THEN a ELSE [a EXCEPT !.upd = FALSE]

Repopulate(ver, a, row_count) ==
    Release(FillRows(ver,
                [a EXCEPT !.tbl = SetRowCount(SetColumns(@, a.ds), row_count)],
                0, row_count))

app_update_table(ver, a) ==
    IF a.err THEN a
    ELSE IF a.ds = <<>>
    THEN [a EXCEPT !.tbl = NoTable, !.upd = FlagAfterEmpty(ver)]
    ELSE Repopulate(ver, Hold(a),
                    IF ver = "v3.4.2" THEN MaxLenX(a.ds, a.h)
                    ELSE Len(a.h[a.ds[1].x]))

\* self.original_datasets = [ds.copy() for ds in self.datasets]; v3.1 keeps
\* no shadow copy
Shadow(ver, a) ==
    IF a.err \/ ver = "v3.1" THEN a ELSE [a EXCEPT !.ods = a.ds]

-----------------------------------------------------------------------------
(* The heap operations of a handler *)

OnHeap(a, m) == [a EXCEPT !.h = m.h, !.err = m.err]

AsMachine(a) == [h |-> a.h, err |-> a.err]

\* ref[i], ref[j] = ref[j], ref[i]: IndexError when either is past the end
HSwap(m, r, i, j) ==
    IF m.err THEN m
    ELSE IF i < 0 \/ j < 0 \/ i >= Len(m.h[r]) \/ j >= Len(m.h[r])
         THEN [m EXCEPT !.err = TRUE]
         ELSE [m EXCEPT !.h[r] = [@ EXCEPT ![i + 1] = m.h[r][j + 1],
                                           ![j + 1] = m.h[r][i + 1]]]

\* del ref[i] `if i < len(ref)`
HDelIf(m, r, i) == IF i < Len(m.h[r]) THEN HDel(m, r, i) ELSE m

-----------------------------------------------------------------------------
(* PlottingApp.add_row *)

\* v3.4.2 line 1325
NewX342(xl) ==
    IF xl # <<>> /\ IsNumber(xl[Len(xl)]) THEN PlusOne(xl[Len(xl)])
    ELSE PyInt(Len(xl) - 1 + 1)

RECURSIVE AppAddRowLoop(_, _, _, _, _)
AppAddRowLoop(ver, a, dss, i, m) ==
    IF i > Len(dss) THEN m
    ELSE LET d == dss[i]
             m4 == IF ver = "v3.4.2"
                   THEN HAppend(HAppend(HAppend(m, d.x, NewX342(m.h[d.x])),
                                        d.y, PyInt(0)),
                                d.colors, a.point)
                   ELSE IF ver = "v3.2.1"
                   THEN LET new_x == NewX(a.h[dss[1].x])
                            m3 == HAppend(HAppend(HAppend(m, d.x, new_x),
                                                  d.y, PyInt(0)),
                                          d.colors, d.primary_color)
                        IN  IF Len(m3.h[d.x]) > 1
                            THEN HAppend(m3, d.line_segment_colors,
                                         d.primary_color)
                            ELSE m3
                   ELSE HAppend(HAppend(HAppend(m, d.x, PyInt(0)),
                                        d.y, PyInt(0)),
                                d.colors, a.plot)
         IN  AppAddRowLoop(ver, a, dss, i + 1, m4)

FirstSeries(ver, a) ==
    LET n == Len(a.h)
    IN  [ds |-> << [name |-> "data1", x |-> n + 1, y |-> n + 2,
                    colors |-> n + 3,
                    primary_color |-> IF ver = "v3.4.2" THEN a.line
                                      ELSE IF ver = "v3.2.1" THEN a.plot
                                      ELSE "",
                    line_segment_colors |-> IF ver = "v3.1" THEN 0
                                            ELSE n + 4] >>,
         h |-> a.h \o << <<PyInt(0)>>, <<PyInt(0)>>,
                         << IF ver = "v3.4.2" THEN a.point ELSE a.plot >> >>
                   \o (IF ver = "v3.1" THEN <<>> ELSE << <<>> >>)]

WithSeries(a, r) == [a EXCEPT !.ds = r.ds, !.h = r.h]

app_add_row(ver, a) ==
    app_update_table(ver, Shadow(ver,
        IF a.ds = <<>> THEN WithSeries(a, FirstSeries(ver, a))
        ELSE OnHeap(a, AppAddRowLoop(ver, a, a.ds, 1, AsMachine(a)))))

-----------------------------------------------------------------------------
(* PlottingApp.remove_row *)

\* v3.4.2 lines 1335-1339
RemoveRow342(m, d, row) ==
    IF row < Len(m.h[d.x])
    THEN HDelIf(HDelIf(HDelIf(m, d.x, row), d.y, row), d.colors, row)
    ELSE m

\* v3.1 lines 1231-1233; v3.2.1 lines 1133-1134 are those of PlottingModel
RemoveRow31(m, d, row) == HDel(HDel(HDel(m, d.x, row), d.y, row), d.colors, row)

RECURSIVE AppRemoveAll(_, _, _, _, _)
AppRemoveAll(ver, dss, i, row, m) ==
    IF i > Len(dss) \/ m.err THEN m
    ELSE AppRemoveAll(ver, dss, i + 1, row,
            IF ver = "v3.4.2" THEN RemoveRow342(m, dss[i], row)
            ELSE IF ver = "v3.2.1" THEN RemoveRowDs(m, dss[i], row)
            ELSE RemoveRow31(m, dss[i], row))

RECURSIVE AppRemoveLoop(_, _, _, _)
AppRemoveLoop(ver, rows, dss, m) ==
    IF rows = <<>> \/ m.err THEN m
    ELSE LET row == Head(rows)
         IN  IF ver = "v3.4.2"
                \/ (dss # <<>> /\ 0 <= row /\ row < Len(m.h[dss[1].x]))
             THEN AppRemoveLoop(ver, Tail(rows), dss,
                                AppRemoveAll(ver, dss, 1, row, m))
             ELSE AppRemoveLoop(ver, Tail(rows), dss, m)

app_remove_row(ver, a, selected) ==
    IF selected = {} THEN a
    ELSE app_update_table(ver, Shadow(ver,
             OnHeap(a, AppRemoveLoop(ver, SortedDesc(selected), a.ds,
                                     AsMachine(a)))))

-----------------------------------------------------------------------------
(* PlottingApp.move_row / move_row_up / move_row_down *)

RECURSIVE AppMoveLoop(_, _, _, _, _, _)
AppMoveLoop(ver, dss, i, row, new_row, m) ==
    IF i > Len(dss) \/ m.err THEN m
    ELSE LET d == dss[i]
             \* v3.4.2 line 1353: a list too short for the swap is skipped
             Swap342(mm, r) ==
                 IF row < Len(mm.h[r]) /\ new_row < Len(mm.h[r])
                 THEN HSwap(mm, r, row, new_row) ELSE mm
             m3 == IF ver = "v3.4.2"
                   THEN Swap342(Swap342(Swap342(m, d.x), d.y), d.colors)
                   ELSE IF ver = "v3.2.1"
                   THEN MoveRowDs(m, d, row, new_row)
                   ELSE HSwap(HSwap(HSwap(m, d.x, row, new_row),
                                    d.y, row, new_row),
                              d.colors, row, new_row)
         IN  AppMoveLoop(ver, dss, i + 1, row, new_row, m3)

\* row is the selected row, direction -1 (up) or 1 (down)
app_move_row(ver, a, row, direction) ==
    IF ver = "v3.4.2"
    THEN IF ~(0 <= row + direction /\ row + direction < RowCount(a.tbl)) THEN a
         ELSE Release(app_update_table(ver, Shadow(ver,
                  OnHeap(Hold(a),
                         AppMoveLoop(ver, a.ds, 1, row, row + direction,
                                     AsMachine(a))))))
    ELSE IF (direction = -1 /\ row = 0)
            \/ (direction = 1 /\ row = RowCount(a.tbl) - 1)
            \/ a.ds = <<>>
    THEN a
    ELSE app_update_table(ver, Shadow(ver,
             OnHeap(a, AppMoveLoop(ver, a.ds, 1, row, row + direction,
                                   AsMachine(a)))))

-----------------------------------------------------------------------------
(* PlottingApp.clear_plot *)

app_clear_plot(ver, a) ==
    app_update_table(ver,
        [a EXCEPT !.ds = <<>>, !.xl = 0, !.src = "manual",
                  !.ods = IF ver = "v3.1" THEN @ ELSE <<>>])

-----------------------------------------------------------------------------
(* PlottingApp.update_data_from_file_input and load_excel_file *)

\* v3.4.2 lines 1287-1295: every series gets its own slice x_data[:n]
RECURSIVE FileSeries342(_, _, _, _, _)
FileSeries342(a, df, x_col, y_cols, r) ==
    IF y_cols = <<>> THEN r
    ELSE LET y_data == df[Head(y_cols)]
             n == Len(y_data)
             k == Len(r.h)
             d == [name |-> Head(y_cols), x |-> k + 1, y |-> k + 2,
                   colors |-> k + 3, primary_color |-> a.line,
                   line_segment_colors |-> k + 4]
             h2 == r.h \o << SubSeq(df[x_col], 1, n), y_data,
                             Repeat(a.point, n), Repeat(a.line, n - 1) >>
         IN  FileSeries342(a, df, x_col, Tail(y_cols),
                           [ds |-> Append(r.ds, d), h |-> h2])

\* v3.2.1 line 1089 and v3.1 lines 892-897: one x list for every series
RECURSIVE FileSeriesOld(_, _, _, _, _, _)
FileSeriesOld(ver, a, df, y_cols, xref, r) ==
    IF y_cols = <<>> THEN r
    ELSE LET num_points == Len(r.h[xref])
             k == Len(r.h)
             d == [name |-> Head(y_cols), x |-> xref, y |-> k + 1,
                   colors |-> k + 2,
                   primary_color |-> IF ver = "v3.1" THEN "" ELSE a.plot,
                   line_segment_colors |-> IF ver = "v3.1" THEN 0 ELSE k + 3]
             h2 == r.h \o << df[Head(y_cols)], Repeat(a.plot, num_points) >>
                       \o (IF ver = "v3.1" THEN <<>>
                           ELSE << Repeat(a.plot, num_points - 1) >>)
         IN  FileSeriesOld(ver, a, df, Tail(y_cols), xref,
                           [ds |-> Append(r.ds, d), h |-> h2])

\* x_col and y_cols are what the combo box and the list widget hold; both
\* only ever hold columns of the loaded file
\* self.data_source = 'file'; self.datasets = []
FileInput(a) == [a EXCEPT !.src = "file", !.ds = <<>>]

update_data_from_file_input(ver, a, x_col, y_cols) ==
    IF a.err \/ a.xl = 0 THEN a
    ELSE IF x_col = "" \/ y_cols = <<>>
    THEN app_update_table(ver, FileInput(a))
    ELSE app_update_table(ver, Shadow(ver, WithSeries(FileInput(a),
             IF ver = "v3.4.2"
             THEN FileSeries342(a, Files[a.xl], x_col, y_cols,
                                [ds |-> <<>>, h |-> a.h])
             ELSE FileSeriesOld(ver, a, Files[a.xl], y_cols, Len(a.h) + 1,
                      [ds |-> <<>>,
                       h |-> Append(a.h, Files[a.xl][x_col])]))))

\* the columns of the loaded file, as addItems puts them in both widgets
FileColumns == <<"X", "L", "A", "B", "C">>

\* addItems makes column 0 the combo's current text (currentIndexChanged);
\* then row 1 of the list is selected (itemSelectionChanged)
load_excel_file(ver, a, f) ==
    [update_data_from_file_input(ver,
        update_data_from_file_input(ver, [a EXCEPT !.xl = f],
                                    FileColumns[1], <<>>),
        FileColumns[1], <<FileColumns[2]>>)
     EXCEPT !.src = "file"]

\* QMessageBox.critical and QMessageBox.warning: the message the user sees
Critical(a) == [a EXCEPT !.msg = <<"critical">>]

Warning(a) == [a EXCEPT !.msg = <<"warning">>]

\* the causes of a failed import: the extension is none of .xlsx, .xls and
\* .csv, or the reader raises (a corrupt file, an unreadable file)
FailureCauses == {"unsupported", "read_error"}

\* load_excel_file when the import fails.  A reader that raises has not
\* assigned excel_data, and the except clause shows the error.  v3.1 and
\* v3.2.1 answer an unsupported extension with a warning and return; v3.4.2
\* has no else branch, so it goes on with the excel_data it already holds:
\* None has no columns (AttributeError, shown by the except clause), a frame
\* loaded earlier fills both widgets again as a successful import does.
load_excel_file_fails(ver, a, cause) ==
    IF cause = "read_error" THEN Critical(a)
    ELSE IF ver # "v3.4.2" THEN Warning(a)
    ELSE IF a.xl = 0 THEN Critical(a)
    ELSE load_excel_file(ver, a, a.xl)

-----------------------------------------------------------------------------
(* PlottingApp.pick_color, update_dataset_colors, pick_color_for_cell *)

\* ds[key] = [hex_color] * n for every series: each gets a new list
RECURSIVE Recolor(_, _, _, _, _, _)
Recolor(ver, target, hex_color, dss, i, r) ==
    IF i > Len(dss) THEN r
    ELSE LET d == dss[i]
             k == Len(r.h)
             points == Repeat(hex_color, Len(Deref(r.h, d.colors)))
             lines == Repeat(hex_color, Len(Deref(r.h, d.x)) - 1)
             d2 == IF ver = "v3.1" THEN [d EXCEPT !.colors = k + 1]
                   ELSE IF ver = "v3.2.1"
                   THEN [d EXCEPT !.primary_color = hex_color,
                                  !.colors = k + 1,
                                  !.line_segment_colors = k + 2]
                   ELSE IF target = "line"
                   THEN [d EXCEPT !.primary_color = hex_color,
                                  !.line_segment_colors = k + 1]
                   ELSE [d EXCEPT !.colors = k + 1]
             h2 == IF ver = "v3.2.1" THEN r.h \o <<points, lines>>
                   ELSE IF ver = "v3.4.2" /\ target = "line"
                   THEN Append(r.h, lines)
                   ELSE Append(r.h, points)
         IN  Recolor(ver, target, hex_color, dss, i + 1,
                     [ds |-> Append(r.ds, d2), h |-> h2])

\* self.<target>_color_hex = hex_color
WithColor(ver, a, target, hex_color) ==
    IF ver # "v3.4.2" THEN [a EXCEPT !.plot = hex_color]
    ELSE IF target = "line" THEN [a EXCEPT !.line = hex_color]
    ELSE [a EXCEPT !.point = hex_color]

\* the colour dialog returned hex_color and no artist is selected in the plot
pick_color(ver, a, target, hex_color) ==
    IF ver = "v3.4.2" /\ target = "line"
    THEN WithSeries(WithColor(ver, a, target, hex_color),
                    Recolor(ver, target, hex_color, a.ds, 1,
                            [ds |-> <<>>, h |-> a.h]))
    ELSE app_update_table(ver,
             WithSeries(WithColor(ver, a, target, hex_color),
                        Recolor(ver, target, hex_color, a.ds, 1,
                                [ds |-> <<>>, h |-> a.h])))

\* item.setBackground on an item of the grid emits itemChanged
SetBackground(ver, a, row, col, hex_color) ==
    SetItem(ver, a, row, col, [Item(a.tbl, row, col) EXCEPT !.bg = hex_color])

\* colors[row] = hex_color `if row < len(colors)`
SetPoint(a, cref, row, hex_color) ==
    IF row < Len(a.h[cref]) THEN [a EXCEPT !.h[cref][row + 1] = hex_color]
    ELSE a

\* v3.1 lines 805-807, v3.2.1 line 1027: a missing item is created first
EnsureItem(ver, a, row, col) ==
    IF Item(a.tbl, row, col).item THEN a
    ELSE SetItem(ver, a, row, col, TextItem(""))

pick_color_for_cell(ver, a, row, col, hex_color) ==
    IF a.upd \/ ~(col > 0 /\ col % 2 = 0) THEN a
    ELSE IF (col \div 2) - 1 >= Len(a.ds) THEN a
    ELSE IF ver = "v3.4.2"
    THEN IF ~(row < Len(a.h[a.ds[col \div 2].colors])) THEN a
         ELSE IF ~Item(a.tbl, row, col).item
         THEN Raise(SetPoint(a, a.ds[col \div 2].colors, row, hex_color))
         ELSE SetBackground(ver,
                  SetPoint(a, a.ds[col \div 2].colors, row, hex_color),
                  row, col, hex_color)
    ELSE SetBackground(ver,
             EnsureItem(ver,
                 SetPoint(a, a.ds[col \div 2].colors, row, hex_color),
                 row, col),
             row, col, hex_color)

\* the user commits text in the editor of cell (row, col)
edit_cell(ver, a, row, col, text) ==
    SetItem(ver, a, row, col,
            [item |-> TRUE, text |-> text,
             bg |-> IF Item(a.tbl, row, col).item
                    THEN Item(a.tbl, row, col).bg ELSE Black])

-----------------------------------------------------------------------------
(* PlottingApp.paste_data: the clipboard is a list of lines, a line a list *)
(* of fields.                                                              *)

\* insertRow(row) when row >= rowCount()
WithRow(tbl, row) ==
    IF row >= RowCount(tbl) THEN SetRowCount(tbl, RowCount(tbl) + 1) ELSE tbl

\* `for j, field in enumerate(fields)`: setItem where the column exists
RECURSIVE PasteFields(_, _, _, _, _)
PasteFields(ver, a, row, col, fields) ==
    IF fields = <<>> \/ a.err THEN a
    ELSE PasteFields(ver,
             IF col < a.tbl.ncols
             THEN SetItem(ver, a, row, col, TextItem(Head(fields)))
             ELSE a,
             row, col + 1, Tail(fields))

\* `for i, line in enumerate(lines)`
RECURSIVE PasteLines(_, _, _, _, _)
PasteLines(ver, a, row, col, lines) ==
    IF lines = <<>> \/ a.err THEN a
    ELSE PasteLines(ver,
             PasteFields(ver, [a EXCEPT !.tbl = WithRow(@, row)], row, col,
                         Head(lines)),
             row + 1, col, Tail(lines))

\* paste_data without `self.is_updating_table = True`
paste_data_unheld(ver, a, start_row, start_col, lines) ==
    app_update_data_from_table(ver,
        Release(PasteLines(ver, a, start_row, start_col, lines)))

paste_data(ver, a, start_row, start_col, lines) ==
    app_update_data_from_table(ver,
        Release(PasteLines(ver, Hold(a), start_row, start_col, lines)))

-----------------------------------------------------------------------------
(* A click on a column header: the view sorts the rows of the grid, then   *)
(* PlottingApp.on_table_sort runs (v3.2.1, v3.4.2).                         *)

\* the characters of the decimal numeral of n
RECURSIVE Digits(_)
Digits(n) ==
    IF n < 10 THEN <<48 + n>>
    ELSE Digits(n \div 10) \o <<48 + (n % 10)>>

\* the characters of a cell text: numerals, numerals with ".0", "" and labels
TextKey(t) ==
    IF t \in IntTexts THEN Digits(NumOf(t))
    ELSE IF t \in FloatTexts THEN Digits(NumOf(t)) \o <<46, 48>>
    ELSE IF t = "" THEN <<>>
    ELSE <<114>>

\* s < t as strings
RECURSIVE SeqLess(_, _)
SeqLess(s, t) ==
    IF t = <<>> THEN FALSE
    ELSE IF s = <<>> THEN TRUE
    ELSE IF Head(s) # Head(t) THEN Head(s) < Head(t)
    ELSE SeqLess(Tail(s), Tail(t))

\* QTableWidgetItem.__lt__ compares the texts
ItemLess(c1, c2) == SeqLess(TextKey(c1.text), TextKey(c2.text))

\* row goes before the first row it must precede: a stable sort
RECURSIVE InsertRow(_, _, _, _)
InsertRow(sorted, row, c, asc) ==
    IF sorted = <<>> THEN <<row>>
    ELSE LET before == IF asc THEN ItemLess(row[c + 1], Head(sorted)[c + 1])
                       ELSE ItemLess(Head(sorted)[c + 1], row[c + 1])
         IN  IF before THEN <<row>> \o sorted
             ELSE <<Head(sorted)>> \o InsertRow(Tail(sorted), row, c, asc)

RECURSIVE SortedRows(_, _, _, _)
SortedRows(rows, c, asc, acc) ==
    IF rows = <<>> THEN acc
    ELSE SortedRows(Tail(rows), c, asc, InsertRow(acc, Head(rows), c, asc))

\* rows with no item in the column go last, in their order
SortRows(tbl, c, asc) ==
    [tbl EXCEPT !.rows =
        SortedRows(SelectSeq(@, LAMBDA r : r[c + 1].item), c, asc, <<>>)
        \o SelectSeq(@, LAMBDA r : ~r[c + 1].item)]

Perms(n) == {p \in [1..n -> 1..n] : \A i, j \in 1..n : p[i] = p[j] => i = j}

Permute(tbl, perm) ==
    [tbl EXCEPT !.rows = [i \in 1..Len(@) |-> @[perm[i]]]]

\* what on_table_sort of v3.2.1 reads of a cell (line 1064)
CellText(cell) == IF cell.item THEN cell.text ELSE ""

CellColor(cell) == IF cell.item THEN cell.bg ELSE ""

\* try: [float(v) if v else 0.0 for v in column]  except: column
ColumnFloats(texts) ==
    IF \A i \in 1..Len(texts) : texts[i] = "" \/ IsNumText(texts[i])
    THEN [i \in 1..Len(texts) |->
            IF texts[i] = "" THEN PyFloat(0) ELSE PyFloat(NumOf(texts[i]))]
    ELSE [i \in 1..Len(texts) |-> PyStr(texts[i])]

\* v3.2.1 lines 1067-1074: x, y and colors of the existing series are
\* replaced by what the grid shows
RECURSIVE SortRebind(_, _, _)
SortRebind(a, i, r) ==
    IF i >= Pairs(a.tbl) THEN r
    ELSE IF ~(i < Len(a.ds)) THEN SortRebind(a, i + 1, r)
    ELSE LET y_col_idx == 1 + i * 2
             n == RowCount(a.tbl)
             x_data == ColumnFloats([k \in 1..n |->
                           CellText(a.tbl.rows[k][1])])
             y_data == ColumnFloats([k \in 1..n |->
                           CellText(a.tbl.rows[k][y_col_idx + 1])])
             colors == [k \in 1..n |-> CellColor(a.tbl.rows[k][y_col_idx + 2])]
             k0 == Len(r.h)
         IN  SortRebind(a, i + 1,
                 [ds |-> [r.ds EXCEPT ![i + 1].x = k0 + 1,
                                      ![i + 1].y = k0 + 2,
                                      ![i + 1].colors = k0 + 3],
                  h |-> r.h \o <<x_data, y_data, colors>>])

\* on_table_sort below the third click: v3.4.2 line 1273, v3.2.1 lines
\* 1063-1075
SortBody(ver, a) ==
    IF ver = "v3.4.2" THEN app_update_data_from_table(ver, a)
    ELSE IF RowCount(a.tbl) = 0 THEN [a EXCEPT !.upd = FALSE]
    ELSE WithSeries([a EXCEPT !.upd = FALSE],
                    SortRebind(a, 0, [ds |-> a.ds, h |-> a.h]))

Counted(info, column) ==
    IF info.col = column THEN [info EXCEPT !.count = @ + 1]
    ELSE [col |-> column, count |-> 1]

\* setSortIndicator(-1, ...) emits sortIndicatorChanged: the view's slot
\* leaves the rows in an order the program does not choose (perm), and
\* on_table_sort runs again for column -1 before the statement returns
ClearIndicator(ver, a, perm) ==
    IF a.ind.col = -1 /\ a.ind.asc THEN a
    ELSE SortBody(ver, [a EXCEPT !.ind = [col |-> -1, asc |-> TRUE],
                                 !.tbl = Permute(@, perm),
                                 !.sort = Counted(@, -1)])

\* self.datasets = [ds.copy() for ds in self.original_datasets]
Restored(a) == [a EXCEPT !.ds = a.ods]

\* v3.4.2 line 1271, v3.2.1 line 1062: what follows update_table
SortReset(ver, a) ==
    IF a.err THEN a
    ELSE IF ver = "v3.4.2" THEN [a EXCEPT !.sort.col = -1]
    ELSE [a EXCEPT !.sort = [col |-> -1, count |-> 0]]

WithCount(a, column) == [a EXCEPT !.sort = Counted(@, column)]

on_table_sort(ver, a, column, perm) ==
    IF Counted(a.sort, column).count >= 3
    THEN SortReset(ver, app_update_table(ver,
             Restored(ClearIndicator(ver, WithCount(a, column), perm))))
    ELSE SortBody(ver, WithCount(a, column))

\* a click on the header of column: the indicator flips on the same column
\* and starts ascending on another one
HeaderOrder(a, column) == IF a.ind.col = column THEN ~a.ind.asc ELSE TRUE

header_click(ver, a, column, perm) ==
    IF ver = "v3.1"
    THEN [a EXCEPT !.ind = [col |-> column, asc |-> HeaderOrder(a, column)],
                   !.tbl = SortRows(@, column, HeaderOrder(a, column))]
    ELSE on_table_sort(ver,
             [a EXCEPT !.ind = [col |-> column,
                                asc |-> HeaderOrder(a, column)],
                       !.tbl = SortRows(@, column, HeaderOrder(a, column))],
             column, perm)

-----------------------------------------------------------------------------
(* The window as a state machine: one action per user gesture *)

\* == of Python makes 1 and 1.0 the same value
Norm(v) == IF IsNumber(v) THEN PyFloat(v.n) ELSE v

NormView(d, h) ==
    [name |-> d.name,
     x |-> [i \in 1..Len(h[d.x]) |-> Norm(h[d.x][i])],
     y |-> [i \in 1..Len(h[d.y]) |-> Norm(h[d.y][i])],
     colors |-> h[d.colors]]

NormViews(dss, h) == [i \in 1..Len(dss) |-> NormView(dss[i], h)]

\* the fields of the window after the handler, which ran to its end or to
\* an exception that the event loop reports
Commit(a, o) ==
    LET c == Collect(a.ds, a.ods, a.h)
    IN  /\ version \in AppVersions
        /\ nops < MaxAppOps
        /\ nops' = nops + 1
        /\ version' = version
        /\ datasets' = c.ds
        /\ original_datasets' = c.ods
        /\ heap' = c.h
        /\ excel_data' = a.xl
        /\ data_source' = a.src
        /\ plot_color_hex' = a.plot
        /\ line_color_hex' = a.line
        /\ point_color_hex' = a.point
        /\ data_table' = a.tbl
        /\ is_updating_table' = a.upd
        /\ last_sort_info' = a.sort
        /\ sort_indicator' = a.ind
        /\ ignored' = a.ignored
        /\ rebuilds' = a.rebuilds
        /\ built' = a.built
        /\ raised' = a.err
        /\ emitted' = a.msg
        /\ op' = o
        /\ captured' = IF o.name = "header_click" THEN captured
                       ELSE NormViews(c.ds, c.h)
        /\ UNCHANGED auxvars

GridRows == 0..(RowCount(data_table) - 1)

EditTexts == {"7", "r"}

AppLoad ==
    /\ version \in AppVersions
    /\ \E f \in 1..Len(Files) :
          Commit(load_excel_file(version, Pack, f), Op("load_excel_file"))

AppLoadFails ==
    /\ version \in AppVersions
    /\ \E cause \in FailureCauses :
          Commit(load_excel_file_fails(version, Pack, cause),
                 [Op("load_excel_file_fails") EXCEPT !.kind = cause])

AppSelectColumns ==
    /\ excel_data # 0
    /\ \E sel \in YSelections :
          Commit(update_data_from_file_input(version, Pack, FileColumns[1],
                                             YNames(sel)),
                 Op("update_data_from_file_input"))

AppAddRow ==
    /\ HasRoom
    /\ Commit(app_add_row(version, Pack), Op("add_row"))

AppRemoveRow ==
    \E S \in SUBSET GridRows :
        /\ S # {}
        /\ Commit(app_remove_row(version, Pack, S),
                  [Op("remove_row") EXCEPT !.rows = S])

AppMoveRow ==
    \E row \in GridRows, direction \in {-1, 1} :
        Commit(app_move_row(version, Pack, row, direction),
               [Op("move_row") EXCEPT !.from = row, !.to = row + direction])

AppClearPlot ==
    /\ version \in AppVersions
    /\ Commit(app_clear_plot(version, Pack), Op("clear_plot"))

AppPickColor ==
    \E target \in {"line", "point"} :
        /\ version # "v3.4.2" => target = "point"
        /\ Commit(pick_color(version, Pack, target, Red), Op("pick_color"))

AppPickColorForCell ==
    \E row \in GridRows, col \in 0..(data_table.ncols - 1) :
        /\ col > 0 /\ col % 2 = 0
        /\ Commit(pick_color_for_cell(version, Pack, row, col, Green),
                  [Op("pick_color_for_cell") EXCEPT !.from = row, !.to = col])

AppEditCell ==
    \E row \in GridRows, col \in {0, 1}, text \in EditTexts :
        Commit(edit_cell(version, Pack, row, col, text),
               [Op("edit_cell") EXCEPT !.from = row, !.to = col])

\* what the clipboard holds: one cell, two cells of a row, two of a column
Clipboards == { << <<"7">> >>, << <<"r", "7">> >>, << <<"7">>, <<"r">> >> }

\* the paste starts at the current cell, at (0, 0) when there is none
AppPaste ==
    \E row \in GridRows \cup {0}, col \in 0..(data_table.ncols - 1),
       lines \in Clipboards :
        /\ GridRows = {} => col = 0
        /\ row + Len(lines) <= MaxRows
        /\ Commit(paste_data(version, Pack, row, col, lines),
                  [Op("paste_data") EXCEPT !.from = row, !.to = col,
                                           !.lines = lines])

\* the third click in a row on one column is the one that may clear the
\* indicator
AppHeaderClick ==
    \E col \in {0, 1} :
        \E perm \in IF Counted(last_sort_info, col).count >= 3
                       /\ version # "v3.1"
                    THEN Perms(RowCount(data_table))
                    ELSE {[i \in 1..RowCount(data_table) |-> i]} :
            Commit(header_click(version, Pack, col, perm),
                   [Op("header_click") EXCEPT !.from = col])

\* the window after __init__, which ends with update_table on no series
InitApp ==
    /\ version \in AppVersions
    /\ InitAux
    /\ data_table = NoTable
    /\ is_updating_table = FlagAfterEmpty(version)
    /\ last_sort_info = [col |-> -1, count |-> 0]
    /\ sort_indicator = [col |-> -1, asc |-> TRUE]
    /\ line_color_hex = DefaultColor
    /\ point_color_hex = DefaultPointColor
    /\ ignored = 0
    /\ rebuilds = 0
    /\ built = 0
    /\ captured = <<>>
    /\ datasets = <<>>
    /\ original_datasets = <<>>
    /\ heap = <<>>
    /\ excel_data = 0
    /\ data_source = "manual"
    /\ plot_color_hex = DefaultColor
    /\ op = Op("init")
    /\ emitted = <<>>
    /\ raised = FALSE
    /\ nops = 0

NextApp ==
    \/ AppLoad
    \/ AppLoadFails
    \/ AppSelectColumns
    \/ AppAddRow
    \/ AppRemoveRow
    \/ AppMoveRow
    \/ AppClearPlot
    \/ AppPickColor
    \/ AppPickColorForCell
    \/ AppEditCell
    \/ AppPaste
    \/ AppHeaderClick

SpecApp == InitApp /\ [][NextApp]_vars

-----------------------------------------------------------------------------
(* The smoothing of update_plot (v3.4.2): one task per numeric series is   *)
(* handed to a process pool; a worker gets a pickled copy of the task and  *)
(* returns its result; pool.map returns the results in task order once     *)
(* every worker has finished.  A curve is kept as the knots the            *)
(* interpolator is built on: the sorted unique x values, each with the sum *)
(* and the number of the y values it averages.                             *)

\* x and y of a series: unsorted x, repeated x, a label in y, a single row
SeriesKinds ==
    << [x |-> <<PyInt(2), PyInt(1), PyInt(3)>>,
        y |-> <<PyInt(10), PyInt(20), PyInt(30)>>],
       [x |-> <<PyInt(1), PyInt(1), PyInt(2)>>,
        y |-> <<PyInt(10), PyInt(30), PyInt(20)>>],
       [x |-> <<PyInt(1), PyInt(2)>>,
        y |-> <<PyStr("r"), PyInt(7)>>],
       [x |-> <<PyInt(1)>>, y |-> <<PyInt(10)>>] >>

\* the store whose series are of the given kinds, every list its own object
RECURSIVE KindStore(_, _)
KindStore(kinds, r) ==
    IF kinds = <<>> THEN r
    ELSE LET k == SeriesKinds[Head(kinds)]
             n == Len(r.h)
             d == [name |-> SeriesNames[Len(r.ds) + 1], x |-> n + 1,
                   y |-> n + 2, colors |-> n + 3,
                   primary_color |-> DefaultColor,
                   line_segment_colors |-> n + 4]
         IN  KindStore(Tail(kinds),
                 [ds |-> Append(r.ds, d),
                  h |-> r.h \o << k.x, k.y, Repeat(DefaultPointColor, Len(k.x)),
                                  Repeat(DefaultColor, Len(k.x) - 1) >>])

\* all(isinstance(v, (int, float)) for v in l)
AllNumeric(l) == \A i \in 1..Len(l) : IsNumber(l[i])

\* lines 793-799: a task holds the values of x and y, as pickling copies
\* them, and the index of the series
RECURSIVE Tasks(_, _, _)
Tasks(dss, h, i) ==
    IF i > Len(dss) THEN <<>>
    ELSE (IF AllNumeric(h[dss[i].x]) /\ AllNumeric(h[dss[i].y])
          THEN << [x_data |-> h[dss[i].x], y_data |-> h[dss[i].y],
                   dataset_index |-> i - 1] >>
          ELSE <<>>) \o Tasks(dss, h, i + 1)

\* the elements of a set of numbers in ascending order
RECURSIVE Ascending(_)
Ascending(S) ==
    IF S = {} THEN <<>>
    ELSE LET m == CHOOSE a \in S : \A b \in S : a <= b
         IN  <<m>> \o Ascending(S \ {m})

\* the sum of y over the rows i..len where x is x_val
RECURSIVE SumAt(_, _, _, _)
SumAt(x_data, y_data, x_val, i) ==
    IF i > Len(x_data) THEN 0
    ELSE (IF x_data[i].n = x_val THEN y_data[i].n ELSE 0)
         + SumAt(x_data, y_data, x_val, i + 1)

\* lines 44-62: sort by x, one knot per unique x with the mean of its y
Knots(x_data, y_data) ==
    LET unique_x == Ascending({x_data[i].n : i \in 1..Len(x_data)})
    IN  [k \in 1..Len(unique_x) |->
            [x |-> unique_x[k],
             sum |-> SumAt(x_data, y_data, unique_x[k], 1),
             count |-> Cardinality({i \in 1..Len(x_data) :
                                       x_data[i].n = unique_x[k]})]]

Pending == [dataset_index |-> -1, curve |-> <<>>, error |-> FALSE]
NoCurve == [has |-> FALSE, curve |-> <<>>]

\* calculate_smooth_curve_worker: the tuple a worker returns
WorkerResult(args) ==
    [dataset_index |-> args.dataset_index,
     curve |-> Knots(args.x_data, args.y_data), error |-> FALSE]

\* ... and the one it returns from its except branch (line 70)
WorkerError(args) ==
    [dataset_index |-> args.dataset_index, curve |-> <<>>, error |-> TRUE]

\* the key a result is stored under, were it its position in the list
KeyByPosition(pos, res) == pos

\* smooth_results[res_idx]: the key is the index the worker sent back
ResultKey(pos, res) == res.dataset_index

\* lines 808-813: `for res_idx, x_smooth, y_smooth, error in results`
RECURSIVE Attach(_, _, _)
Attach(results, pos, acc) ==
    IF pos >= Len(results) THEN acc
    ELSE Attach(results, pos + 1,
             IF results[pos + 1].error THEN acc
             ELSE [acc EXCEPT ![ResultKey(pos, results[pos + 1]) + 1] =
                       [has |-> TRUE, curve |-> results[pos + 1].curve]])

\* update_plot reaches the smoothing (lines 786-799)
smooth_begin ==
    /\ smooth_pc = "idle"
    /\ pool_tasks' = Tasks(datasets, heap, 1)
    /\ pool_results' = [t \in 1..Len(pool_tasks') |-> Pending]
    /\ smooth_results' = [i \in 1..Len(datasets) |-> NoCurve]
    /\ smooth_pc' = IF pool_tasks' = <<>> THEN "drawn" ELSE "pool"
    /\ UNCHANGED unsmoothed

\* a worker finishes its task; the workers finish in any order
worker_returns(t) ==
    /\ smooth_pc = "pool"
    /\ pool_results[t] = Pending
    /\ pool_results' = [pool_results EXCEPT ![t] = WorkerResult(pool_tasks[t])]
    /\ UNCHANGED <<smooth_pc, pool_tasks, smooth_results, unsmoothed>>

\* a worker's computation raises and it returns the error text
worker_fails(t) ==
    /\ smooth_pc = "pool"
    /\ pool_results[t] = Pending
    /\ pool_results' = [pool_results EXCEPT ![t] = WorkerError(pool_tasks[t])]
    /\ UNCHANGED <<smooth_pc, pool_tasks, smooth_results, unsmoothed>>

\* pool.map returns and the results are stored (lines 805-813)
pool_map_returns ==
    /\ smooth_pc = "pool"
    /\ \A t \in 1..Len(pool_results) : pool_results[t] # Pending
    /\ smooth_results' = Attach(pool_results, 0, smooth_results)
    /\ smooth_pc' = "drawn"
    /\ UNCHANGED <<pool_tasks, pool_results, unsmoothed>>

\* pool.map raises as a whole (line 814): no curve is stored
pool_map_fails ==
    /\ smooth_pc = "pool"
    /\ smooth_pc' = "drawn"
    /\ UNCHANGED <<pool_tasks, pool_results, smooth_results, unsmoothed>>

\* update_plot returns; its local variables are gone
update_plot_returns ==
    /\ smooth_pc = "drawn"
    /\ smooth_pc' = "idle"
    /\ pool_tasks' = <<>>
    /\ pool_results' = <<>>
    /\ smooth_results' = <<>>
    /\ UNCHANGED unsmoothed

\* the window of v3.4.2 showing a store of one or more series, smoothing on
InitSmooth ==
    /\ version = "v3.4.2"
    /\ InitWindow
    /\ InitAux
    /\ \E kinds \in UNION {[1..n -> 1..Len(SeriesKinds)] : n \in 1..MaxSeries} :
          LET r == KindStore(kinds, [ds |-> <<>>, h |-> <<>>])
          IN  /\ datasets = r.ds
              /\ original_datasets = r.ds
              /\ heap = r.h
    /\ excel_data = 0
    /\ data_source = "manual"
    /\ plot_color_hex = DefaultColor
    /\ op = Op("update_plot")
    /\ emitted = <<>>
    /\ raised = FALSE
    /\ nops = 0

NextSmooth ==
    \/ smooth_begin
    \/ \E t \in 1..Len(pool_tasks) : worker_returns(t)
    \/ \E t \in 1..Len(pool_tasks) : worker_fails(t)
    \/ pool_map_returns
    \/ pool_map_fails
    \/ update_plot_returns

SpecSmooth == InitSmooth /\ [][NextSmooth]_vars

-----------------------------------------------------------------------------
(* Templates: load_template reads a JSON object and hands it to            *)
(* set_settings.  v3.2.1 reads a fixed list of keys in a fixed order, each *)
(* with a default; v3.4.2 walks the items of the object, then the two      *)
(* rotations.  No input widget of v3.4.2 carries an object name, so its    *)
(* loop finds no widget and only the keys ending in _hex take effect.      *)
(* Of the keys, three are kept for each version.                           *)

\* the keys of a template
TemplateKeys(ver) ==
    IF ver = "v3.4.2"
    THEN {"line_color_hex", "x_tick_rotation", "y_tick_rotation"}
    ELSE {"title", "plot_color_hex", "line_width"}

\* a value of the shape get_settings writes for the key, and one of another
\* shape (a number for a text, a text for a number); a colour is any string
TemplateValues(k) ==
    IF k = "title" THEN {PyStr("T"), PyInt(5)}
    ELSE IF k = "line_width" THEN {PyFloat(3), PyStr("w")}
    ELSE IF k \in {"x_tick_rotation", "y_tick_rotation"}
    THEN {PyInt(45), PyStr("r")}
    ELSE {PyStr(Red)}

\* the JSON objects a template file can hold
Templates(ver) ==
    UNION { { s \in [D -> UNION {TemplateValues(k) : k \in TemplateKeys(ver)}] :
                \A k \in D : s[k] \in TemplateValues(k) } :
            D \in SUBSET TemplateKeys(ver) }

\* the widgets and the colour attributes set_settings works on
Style ==
    [w |-> widgets, plot |-> plot_color_hex, line |-> line_color_hex,
     err |-> FALSE]

\* s.get(k, default)
Get(s, k, default) == IF k \in DOMAIN s THEN s[k] ELSE default

\* QLineEdit.setText(v): a TypeError unless v is a str
SetText(r, name, v) ==
    IF r.err THEN r
    ELSE IF v.k = "str" THEN [r EXCEPT !.w[name] = v]
    ELSE Raise(r)

\* QSpinBox.setValue(v), QDoubleSpinBox.setValue(v): a TypeError unless v
\* is a number
SetValue(r, name, v) ==
    IF r.err THEN r
    ELSE IF IsNumber(v) THEN [r EXCEPT !.w[name] = v]
    ELSE Raise(r)

\* self.plot_color_hex = v, setattr(self, 'line_color_hex', v)
SetPlotColor(r, v) == IF r.err THEN r ELSE [r EXCEPT !.plot = v.s]

SetLineColor(r, v) == IF r.err THEN r ELSE [r EXCEPT !.line = v.s]

\* if k in s: spinbox.setValue(s[k])
SetIfPresent(r, s, k) == IF k \in DOMAIN s THEN SetValue(r, k, s[k]) ELSE r

\* for k, v in s.items(): ... elif k.endswith("_hex"): setattr(self, k, v)
HexItems(r, s) ==
    IF "line_color_hex" \in DOMAIN s THEN SetLineColor(r, s["line_color_hex"])
    ELSE r

\* the try block of set_settings; the finally clause resets is_updating_ui
\* and the exception, if any, goes on to load_template
set_settings(ver, r, s) ==
    IF ver = "v3.4.2"
    THEN SetIfPresent(SetIfPresent(HexItems(r, s), s, "x_tick_rotation"),
                      s, "y_tick_rotation")
    ELSE SetValue(
             SetPlotColor(
                 SetText(r, "title", Get(s, "title", PyStr(""))),
                 Get(s, "plot_color_hex", PyStr(DefaultColor))),
             "line_width", Get(s, "line_width", PyFloat(2)))

\* load_template: set_settings(json.load(f)), then the information box, or
\* the critical box of the except clause
load_template ==
    /\ \E s \in Templates(version) :
          /\ template' = s
          /\ widgets' = set_settings(version, Style, s).w
          /\ plot_color_hex' = set_settings(version, Style, s).plot
          /\ line_color_hex' = set_settings(version, Style, s).line
          /\ emitted' = IF set_settings(version, Style, s).err
                        THEN <<"critical">> ELSE <<"information">>
    /\ is_updating_ui' = FALSE
    /\ op' = Op("load_template")
    /\ raised' = FALSE
    /\ UNCHANGED <<datasets, original_datasets, heap, excel_data, data_source,
                   nops, version, data_table, is_updating_table,
                   last_sort_info, sort_indicator, point_color_hex, ignored,
                   rebuilds, built, captured, smoothvars, timervars,
                   clickvars>>

\* the file cannot be opened or is no JSON object: open, json.load or the
\* first use of the value raises before any key is applied
load_template_unreadable ==
    /\ op' = Op("load_template_unreadable")
    /\ emitted' = <<"critical">>
    /\ raised' = FALSE
    /\ UNCHANGED <<datasets, original_datasets, heap, excel_data, data_source,
                   plot_color_hex, nops, appvars, auxvars>>

InitTemplate ==
    /\ version \in {"v3.2.1", "v3.4.2"}
    /\ InitWindow
    /\ InitAux
    /\ datasets = <<>>
    /\ original_datasets = <<>>
    /\ heap = <<>>
    /\ excel_data = 0
    /\ data_source = "manual"
    /\ plot_color_hex = DefaultColor
    /\ op = Op("init")
    /\ emitted = <<>>
    /\ raised = FALSE
    /\ nops = 0

NextTemplate ==
    \/ load_template
    \/ load_template_unreadable

SpecTemplate == InitTemplate /\ [][NextTemplate]_vars

-----------------------------------------------------------------------------
(* The debounced redraw of v1.0 and v2.2.  Every handler that wants the    *)
(* chart redrawn calls update_plot_with_timer, which starts the one        *)
(* single-shot timer of the window; the timer's timeout is connected to    *)
(* update_plot.  Handlers and the timeout run one at a time in the event   *)
(* loop.  Time is counted in units of 100 ms.                              *)

\* the X and Y texts of the rows of the grid
TimerGrids ==
    { <<>>, << <<"7", "8">> >>, << <<"7", "r">>, <<"8", "7">> >> }

Min(a, b) == IF a < b THEN a ELSE b

\* QTimer.start(300): a running timer is stopped and started anew
StartUnlessActive(t) ==
    IF t.active THEN t ELSE [active |-> TRUE, left |-> Delay]

Start(t) == [active |-> TRUE, left |-> Delay]

\* update_plot_with_timer, as the slot of a style widget's signal
update_plot_with_timer ==
    /\ nreq < MaxRequests
    /\ nreq' = nreq + 1
    /\ update_timer' = Start(update_timer)
    /\ since' = 0
    /\ fired' = 0
    /\ UNCHANGED <<self_x_data, self_y_data, chart, untimed>>

\* update_data_from_table with is_updating_table False: x_data and y_data
\* are read from the grid, each text as a float when it parses (colors_data
\* is read alongside and not kept here), then the redraw is requested
timer_update_data_from_table ==
    /\ nreq < MaxRequests
    /\ nreq' = nreq + 1
    /\ \E g \in TimerGrids :
          /\ self_x_data' = [r \in 1..Len(g) |-> ParseFloat(g[r][1])]
          /\ self_y_data' = [r \in 1..Len(g) |-> ParseFloat(g[r][2])]
    /\ update_timer' = Start(update_timer)
    /\ since' = 0
    /\ fired' = 0
    /\ UNCHANGED <<chart, untimed>>

\* 100 ms pass
tick ==
    /\ since < Delay \/ (update_timer.active /\ update_timer.left > 0)
    /\ since' = Min(since + 1, Delay)
    /\ update_timer' = IF update_timer.active /\ update_timer.left > 0
                       THEN [update_timer EXCEPT !.left = @ - 1]
                       ELSE update_timer
    /\ UNCHANGED <<self_x_data, self_y_data, chart, fired, nreq, untimed>>

\* the timer expires: being single-shot it stops, and update_plot draws
\* self.x_data and self.y_data as they are now
timeout ==
    /\ update_timer.active
    /\ update_timer.left = 0
    /\ update_timer' = [active |-> FALSE, left |-> 0]
    /\ chart' = [x |-> self_x_data, y |-> self_y_data]
    /\ fired' = fired + 1
    /\ UNCHANGED <<self_x_data, self_y_data, since, nreq, untimed>>

InitTimer ==
    /\ version \in {"v1.0", "v2.2"}
    /\ InitWindow
    /\ InitAux
    /\ datasets = <<>>
    /\ original_datasets = <<>>
    /\ heap = <<>>
    /\ excel_data = 0
    /\ data_source = "manual"
    /\ plot_color_hex = DefaultColor
    /\ op = Op("init")
    /\ emitted = <<>>
    /\ raised = FALSE
    /\ nops = 0

NextTimer ==
    \/ update_plot_with_timer
    \/ timer_update_data_from_table
    \/ tick
    \/ timeout

\* the event loop lets time pass and delivers an expired timer's timeout
SpecTimer ==
    InitTimer /\ [][NextTimer]_vars /\ WF_vars(tick) /\ WF_vars(timeout)

-----------------------------------------------------------------------------
(* The grid of v1.0.  update_table fills the grid from x_data, y_data and  *)
(* colors_data and, inside its loop over the rows, connects the grid's     *)
(* cellClicked signal to pick_color_for_cell; nothing ever disconnects it, *)
(* and the constructor makes no such connection.  A signal calls its slot  *)
(* once for every connection.                                              *)

\* update_table: one more connection for every row filled (line 835)
v1_update_table(conns, x) == conns + Len(x)

\* what update_data_from_table reads back from the grid update_table
\* filled: float(str(v)), or the text when it does not parse
ReadBack(l) == [i \in 1..Len(l) |-> ParseFloat(Str(l[i]))]

\* a dialog of QColorDialog.getColor: "" = cancelled
DialogAnswers == {"", Red, Green}

v1_add_row ==
    /\ nreq < MaxRequests
    /\ Len(self_x_data) < MaxRows
    /\ self_x_data' = Append(self_x_data, PyInt(0))
    /\ self_y_data' = Append(self_y_data, PyInt(0))
    /\ colors_data' = Append(colors_data, plot_color_hex)
    /\ connections' = v1_update_table(connections, self_x_data')
    /\ update_timer' = Start(update_timer)
    /\ since' = 0
    /\ fired' = 0
    /\ nreq' = nreq + 1
    /\ invoked' = 0
    /\ op' = Op("add_row")
    /\ UNCHANGED <<datasets, original_datasets, heap, excel_data, data_source,
                   plot_color_hex, emitted, raised, nops, appvars, chart,
                   smoothvars, templatevars>>

\* remove_row with one row selected
v1_remove_row ==
    /\ nreq < MaxRequests
    /\ \E row \in 0..(Len(self_x_data) - 1) :
          /\ self_x_data' = DelAt(self_x_data, row)
          /\ self_y_data' = DelAt(self_y_data, row)
          /\ colors_data' = DelAt(colors_data, row)
          /\ op' = [Op("remove_row") EXCEPT !.from = row]
    /\ connections' = v1_update_table(connections, self_x_data')
    /\ update_timer' = Start(update_timer)
    /\ since' = 0
    /\ fired' = 0
    /\ nreq' = nreq + 1
    /\ invoked' = 0
    /\ UNCHANGED <<datasets, original_datasets, heap, excel_data, data_source,
                   plot_color_hex, emitted, raised, nops, appvars, chart,
                   smoothvars, templatevars>>

\* one click on the cell (row, col): cellClicked calls pick_color_for_cell
\* once per connection.  On column 2 every call opens a colour dialog; the
\* dialogs are all cancelled, or a colour is chosen, set in the cell, and
\* update_data_from_table reads the grid back and requests a redraw
cell_clicked ==
    /\ \E row \in 0..(Len(self_x_data) - 1), col \in 0..2,
          answer \in DialogAnswers :
          /\ op' = [Op("cell_clicked") EXCEPT !.from = row, !.to = col,
                                              !.color = answer]
          /\ IF col = 2 /\ connections > 0 /\ answer # ""
             THEN /\ nreq < MaxRequests
                  /\ nreq' = nreq + 1
                  /\ self_x_data' = ReadBack(self_x_data)
                  /\ self_y_data' = ReadBack(self_y_data)
                  /\ colors_data' = [colors_data EXCEPT ![row + 1] = answer]
                  /\ update_timer' = Start(update_timer)
                  /\ since' = 0
                  /\ fired' = 0
             ELSE /\ answer = ""
                  /\ UNCHANGED <<nreq, self_x_data, self_y_data, colors_data,
                                 update_timer, since, fired>>
    /\ invoked' = connections
    /\ UNCHANGED <<datasets, original_datasets, heap, excel_data, data_source,
                   plot_color_hex, emitted, raised, nops, appvars, chart,
                   connections, smoothvars, templatevars>>

InitClick ==
    /\ version = "v1.0"
    /\ InitWindow
    /\ InitAux
    /\ datasets = <<>>
    /\ original_datasets = <<>>
    /\ heap = <<>>
    /\ excel_data = 0
    /\ data_source = "manual"
    /\ plot_color_hex = DefaultColor
    /\ op = Op("init")
    /\ emitted = <<>>
    /\ raised = FALSE
    /\ nops = 0

NextClick ==
    \/ v1_add_row
    \/ v1_remove_row
    \/ cell_clicked

SpecClick == InitClick /\ [][NextClick]_vars

-----------------------------------------------------------------------------
(* Properties of the PlottingModel store (Spec) *)

Max(a, b) == IF a > b THEN a ELSE b

SeriesIdx == 1..Len(datasets)

\* every series of the store has exactly n entries in x, y and colors
RowsEach(dss, h, n) ==
    \A i \in 1..Len(dss) :
        /\ Len(h[dss[i].x]) = n
        /\ Len(h[dss[i].y]) = n
        /\ Len(h[dss[i].colors]) = n

\* the store had at least one series, each with the same n >= 1 rows
WellFormedBefore ==
    /\ datasets # <<>>
    /\ Len(heap[datasets[1].x]) >= 1
    /\ RowsEach(datasets, heap, Len(heap[datasets[1].x]))

\* l without the elements at the 0-based indices in S, order kept
RECURSIVE Without(_, _, _)
Without(l, S, i) ==
    IF l = <<>> THEN <<>>
    ELSE (IF i \in S THEN <<>> ELSE <<Head(l)>>) \o Without(Tail(l), S, i + 1)

\* l with the element at 0-based index f taken out and put back at index t
Relocated(l, f, t) == InsertAt(DelAt(l, f), t, l[f + 1])

\* C1: after any sequence of store operations every series satisfies
\* len(x) == len(y) == len(colors), for one or several series.
C1_LengthsAgree ==
    \A i \in SeriesIdx :
        /\ Len(heap[datasets[i].x]) = Len(heap[datasets[i].y])
        /\ Len(heap[datasets[i].y]) = Len(heap[datasets[i].colors])

\* C2: after any sequence of store operations every series satisfies
\* len(line_segment_colors) == max(len(x) - 1, 0); remove_rows preserves it
\* whichever row is removed.
C2_SegmentLength ==
    \A i \in SeriesIdx :
        Len(heap[datasets[i].line_segment_colors])
            = Max(Len(heap[datasets[i].x]) - 1, 0)

\* C3: between store operations all series have the same number of rows (in
\* x, in y and in colors) and the same x sequence.
C3_SameRows ==
    \A i \in SeriesIdx : \A j \in SeriesIdx :
        /\ heap[datasets[i].x] = heap[datasets[j].x]
        /\ Len(heap[datasets[i].y]) = Len(heap[datasets[j].y])
        /\ Len(heap[datasets[i].colors]) = Len(heap[datasets[j].colors])

\* C8: add_row on a store of k >= 1 series with n rows each appends exactly
\* one row to every series: x gains last x + 1 (0 after a label), y gains 0,
\* colors and line_segment_colors gain primary_color.
C8_AddRowAppendsOneRow ==
    [][(op'.name = "add_row" /\ WellFormedBefore) =>
        /\ Len(datasets') = Len(datasets)
        /\ \A i \in SeriesIdx :
            LET old == View(datasets[i], heap)
                new == View(datasets'[i], heap')
                last_x == old.x[Len(old.x)]
            IN  /\ new.x = Append(old.x, IF IsNumber(last_x)
                                          THEN PyInt(last_x.n + 1)
                                          ELSE PyInt(0))
                /\ new.y = Append(old.y, PyInt(0))
                /\ new.colors = Append(old.colors, old.primary_color)
                /\ new.line_segment_colors
                       = Append(old.line_segment_colors, old.primary_color)
      ]_vars

\* C9: remove_rows(S) leaves in every series x, y and colors equal to the
\* previous sequences without the elements at the in-range indices of S,
\* the order of the remaining rows kept.
C9_RemoveRowsRemovesSelected ==
    [][(op'.name = "remove_rows" /\ WellFormedBefore) =>
        /\ Len(datasets') = Len(datasets)
        /\ \A i \in SeriesIdx :
            LET old == View(datasets[i], heap)
                new == View(datasets'[i], heap')
            IN  /\ new.x = Without(old.x, op'.rows, 0)
                /\ new.y = Without(old.y, op'.rows, 0)
                /\ new.colors = Without(old.colors, op'.rows, 0)
      ]_vars

\* C10: move_row(from_index, to_index) with both indices in range applies
\* one pop-and-insert relocation to x, y and colors of every series.
C10_MoveRowRelocatesOnce ==
    [][(op'.name = "move_row" /\ WellFormedBefore
        /\ MoveInRange(op'.from, op'.to)) =>
        /\ Len(datasets') = Len(datasets)
        /\ \A i \in SeriesIdx :
            LET old == View(datasets[i], heap)
                new == View(datasets'[i], heap')
            IN  /\ new.x = Relocated(old.x, op'.from, op'.to)
                /\ new.y = Relocated(old.y, op'.from, op'.to)
                /\ new.colors = Relocated(old.colors, op'.from, op'.to)
      ]_vars

\* C6: every operation of PlottingModel that changes the series list ends
\* with a redraw request: a step that leaves the series different from what
\* they were has emitted data_changed.
C6_ChangeEndsWithDataChanged ==
    [][Views(datasets', heap') # Views(datasets, heap)
        => "data_changed" \in Range(emitted')]_vars

\* C11: remove_rows completes without raising on any store reachable through
\* the store's operations (one or several series) and for any set of row
\* indices, in range or not; the out-of-range indices are ignored and the
\* in-range rows are removed.
C11_RemoveRowsNeverRaises ==
    [][op'.name = "remove_rows" =>
        /\ ~raised'
        /\ Len(datasets') = Len(datasets)
        /\ \A i \in SeriesIdx :
              heap'[datasets'[i].y] = Without(heap[datasets[i].y], op'.rows, 0)
      ]_vars

\* the row count of the store: the rows of its first series, 0 when empty
StoreRows == IF datasets = <<>> THEN 0 ELSE Len(heap[datasets[1].x])

\* C12: move_row(from_index, to_index) with from_index or to_index outside
\* [0, row count), or on an empty store, does not raise and leaves datasets
\* and original_datasets unchanged.
C12_MoveRowOutOfRangeIsNoOp ==
    [][(op'.name = "move_row"
        /\ (\/ datasets = <<>>
            \/ op'.from < 0 \/ op'.from >= StoreRows
            \/ op'.to < 0 \/ op'.to >= StoreRows)) =>
        /\ ~raised'
        /\ Views(datasets', heap') = Views(datasets, heap)
        /\ Views(original_datasets', heap') = Views(original_datasets, heap)
      ]_vars

\* move_row was called on a store with rows, from_index in range and
\* to_index past the last row
C12_Witness ==
    /\ op.name = "move_row"
    /\ StoreRows >= 2
    /\ op.from >= 0 /\ op.from < StoreRows
    /\ op.to >= StoreRows
    /\ ~raised

\* the valid point indices of series i (1-based) for a target: the elements
\* of colors for a point target, 1..len(line_segment_colors) for a segment
PointIndices(i, artist_type) ==
    IF artist_type = "line"
    THEN 1..Len(heap[datasets[i].line_segment_colors])
    ELSE 0..(Len(heap[datasets[i].colors]) - 1)

\* C13: update_point_color with a series index or a point index outside the
\* valid range (negative, or >= the sequence length), for the point target
\* and for the segment target, does not raise and changes no element of any
\* series.
C13_OutOfRangeColorIsNoOp ==
    [][(op'.name = "update_point_color"
        /\ (\/ op'.from < 0 \/ op'.from >= Len(datasets)
            \/ op'.to \notin PointIndices(op'.from + 1, op'.kind))) =>
        /\ ~raised'
        /\ Views(datasets', heap') = Views(datasets, heap)
      ]_vars

\* C14: update_point_color with the segment target and point index i sets
\* exactly line_segment_colors[i - 1] of the addressed series for
\* 1 <= i <= len(line_segment_colors) and is a no-op for i = 0; with the
\* point target it sets exactly colors[i]; every other element of every
\* series (x, y, name, primary_color, the other colours) is unchanged.
C14_PointColorSetsOneElement ==
    [][(op'.name = "update_point_color"
        /\ op'.from >= 0 /\ op'.from < Len(datasets)
        /\ (op'.to = 0 \/ op'.to \in PointIndices(op'.from + 1, op'.kind))) =>
        /\ ~raised'
        /\ Views(datasets', heap') =
             [Views(datasets, heap) EXCEPT ![op'.from + 1] =
                 IF op'.kind = "line"
                 THEN IF op'.to = 0 THEN @
                      ELSE [@ EXCEPT !.line_segment_colors[op'.to] = op'.color]
                 ELSE IF op'.to \in PointIndices(op'.from + 1, op'.kind)
                      THEN [@ EXCEPT !.colors[op'.to + 1] = op'.color]
                      ELSE @]
      ]_vars

\* the only segment of a two-row series was given a colour no other element
\* of the series has
C14_Witness ==
    /\ op.name = "update_point_color"
    /\ op.kind = "line"
    /\ op.to = 1
    /\ op.from >= 0 /\ op.from < Len(datasets)
    /\ ~raised
    /\ heap[datasets[op.from + 1].line_segment_colors] = <<op.color>>
    /\ op.color \notin Range(heap[datasets[op.from + 1].colors])

\* C15: update_all_colors(color) on a store with any number of series sets
\* every series' primary_color, every element of colors and every element of
\* line_segment_colors to color, keeps the lengths of colors and
\* line_segment_colors, and leaves every series' x, y and name unchanged.
C15_AllColorsRepaintsEverySeries ==
    [][op'.name = "update_all_colors" =>
        /\ ~raised'
        /\ Len(datasets') = Len(datasets)
        /\ \A i \in SeriesIdx :
            LET old == View(datasets[i], heap)
                new == View(datasets'[i], heap')
            IN  /\ new.primary_color = op'.color
                /\ new.colors = Repeat(op'.color, Len(old.colors))
                /\ new.line_segment_colors
                       = Repeat(op'.color, Len(old.line_segment_colors))
                /\ new.x = old.x
                /\ new.y = old.y
                /\ new.name = old.name
      ]_vars

\* two series with rows and segments were repainted
C15_Witness ==
    /\ op.name = "update_all_colors"
    /\ Len(datasets) = 2
    /\ \A i \in SeriesIdx :
          /\ datasets[i].primary_color = op.color
          /\ Len(heap[datasets[i].colors]) >= 2
          /\ Len(heap[datasets[i].line_segment_colors]) >= 1
          /\ Range(heap[datasets[i].colors]) = {op.color}
          /\ Range(heap[datasets[i].line_segment_colors]) = {op.color}

\* C16: update_data_from_table keeps, for every series whose index exists in
\* the prior store, that series' prior primary_color and prior
\* line_segment_colors; only series at new indices get default values.
\* (The segment colours are compared when the grid has as many rows as the
\* prior series.)
C16_TableKeepsPriorColors ==
    [][op'.name = "update_data_from_table" =>
        \A i \in SeriesIdx :
            i <= Len(datasets') =>
                LET old == View(datasets[i], heap)
                    new == View(datasets'[i], heap')
                IN  /\ new.primary_color = old.primary_color
                    /\ Len(new.x) = Len(old.x) =>
                         new.line_segment_colors = old.line_segment_colors
      ]_vars

\* C18: update_data_from_file discards all current series and builds exactly
\* one series per selected Y column, in selection order, named after the
\* column, with x equal to the X column, y equal to the Y column, colors
\* len(x) copies of the current default colour, line_segment_colors
\* len(x) - 1 copies of it and primary_color equal to it.
C18_FileBuildsOneSeriesPerColumn ==
    [][(op'.name = "update_data_from_file"
        /\ excel_data # 0
        /\ op'.x_col \in {"X", "L"}
        /\ op'.y_cols # <<>>) =>
        /\ ~raised'
        /\ Views(datasets', heap') =
             [i \in 1..Len(op'.y_cols) |->
                 [name |-> op'.y_cols[i],
                  x |-> Files[excel_data][op'.x_col],
                  y |-> Files[excel_data][op'.y_cols[i]],
                  colors |-> Repeat(plot_color_hex,
                                    Len(Files[excel_data][op'.x_col])),
                  primary_color |-> plot_color_hex,
                  line_segment_colors |->
                      Repeat(plot_color_hex,
                             Len(Files[excel_data][op'.x_col]) - 1)]]
      ]_vars

\* two columns were selected after the default colour had been changed
C18_Witness ==
    /\ op.name = "update_data_from_file"
    /\ Len(op.y_cols) = 2
    /\ Len(datasets) = 2
    /\ plot_color_hex # DefaultColor
    /\ \A i \in SeriesIdx :
          /\ datasets[i].name = op.y_cols[i]
          /\ datasets[i].primary_color = plot_color_hex
          /\ Len(heap[datasets[i].x]) = FileRows

C20_NothingToReadEmptiesStore ==
    (op.name = "update_data_from_file"
     /\ (excel_data = 0 \/ op.x_col = "" \/ op.y_cols = <<>>)) =>
        /\ datasets = <<>>
        /\ emitted = <<"data_changed">>
        /\ ~raised

\* with a file loaded and series in the store, the call came with an empty
\* X column name and a Y column selected
C20_Witness ==
    /\ op.name = "update_data_from_file"
    /\ excel_data # 0
    /\ op.x_col = ""
    /\ op.y_cols # <<>>
    /\ original_datasets # <<>>
    /\ datasets = <<>>
    /\ emitted = <<"data_changed">>

\* C21: add_row on a store with no series creates exactly one default series
\* with a single row (x = [0], y = [0], one colour entry, no line segment
\* colours); after it the store has one series of row count 1.
C21_AddRowCreatesDefaultSeries ==
    [][(op'.name = "add_row" /\ datasets = <<>>) =>
        /\ ~raised'
        /\ Views(datasets', heap') =
             << [name |-> "data1", x |-> <<PyInt(0)>>, y |-> <<PyInt(0)>>,
                 colors |-> <<plot_color_hex>>,
                 primary_color |-> plot_color_hex,
                 line_segment_colors |-> <<>>] >>
      ]_vars

\* the default series right after add_row created it, a file being loaded
C21_Witness ==
    /\ op.name = "add_row"
    /\ excel_data # 0
    /\ Len(datasets) = 1
    /\ datasets[1].name = "data1"
    /\ StoreRows = 1

\* the fields of a freshly constructed PlottingModel (lines 45-50)
FreshModel ==
    /\ datasets = <<>>
    /\ original_datasets = <<>>
    /\ heap = <<>>
    /\ excel_data = 0
    /\ data_source = "manual"
    /\ plot_color_hex = DefaultColor

\* C22: clear_all is idempotent and restores the initial state: after one
\* clear_all from any reachable state datasets, original_datasets,
\* excel_data, data_source and the settings equal those of a freshly
\* constructed PlottingModel, and a second clear_all leaves them unchanged.
C22_ClearAllRestoresInitialState ==
    [][op'.name = "clear_all" =>
        /\ FreshModel'
        /\ ~raised'
        /\ op.name = "clear_all" =>
              UNCHANGED <<datasets, original_datasets, heap, excel_data,
                          data_source, plot_color_hex>>
      ]_vars

\* clear_all was called after at least two other operations
C22_Witness ==
    /\ op.name = "clear_all"
    /\ nops >= 3
    /\ FreshModel

\* C28: after every store operation that is not a sort gesture,
\* update_point_color and update_all_colors included, original_datasets
\* equals datasets in content (name, x, y, colors, primary_color and
\* line_segment_colors of every series).
C28_ShadowEqualsStore ==
    [][op'.name # op.name \/ nops' # nops =>
        Views(original_datasets', heap') = Views(datasets', heap')]_vars

-----------------------------------------------------------------------------
(* Properties of the PlottingApp window (SpecApp) *)

\* C4: is_updating_table is False after every return from update_table, on
\* the non-empty path, on the empty-store path and when repopulation raises
\* part-way, so the flag is never left held when a handler has returned.
C4_FlagReleasedAfterUpdateTable ==
    version \in AppVersions => is_updating_table = FALSE

\* C5: while is_updating_table is True every cell-changed notification
\* delivered to update_data_from_table returns at its guard: none of them
\* goes on to set data_source or to rebuild datasets and original_datasets.
\* Seen from the store: the row add_row appended still holds the int 0 it
\* wrote, not the float a rebuild from the grid's text would have put there.
C5_NotificationsIgnoredWhileHeld ==
    version \in AppVersions =>
        /\ rebuilds = 0
        /\ (op.name = "add_row" /\ ~raised) =>
              \A i \in 1..Len(datasets) :
                  heap[datasets[i].y][Len(heap[datasets[i].y])] = PyInt(0)

\* a handler repopulated the grid of two series, and the grid's itemChanged
\* notifications arrived while the flag was held
C5_Witness ==
    /\ version \in {"v3.2.1", "v3.4.2"}
    /\ op.name = "add_row"
    /\ Len(datasets) = 2
    /\ ignored >= 6
    /\ ~raised

\* C7: the third click in a row on one column header restores datasets to
\* the series captured at the last handler other than a sort click, and no
\* sort click overwrites original_datasets.
C7_ThirdClickRestoresCaptured ==
    [][(version \in {"v3.2.1", "v3.4.2"} /\ op'.name = "header_click")
        => /\ NormViews(original_datasets', heap')
                = NormViews(original_datasets, heap)
           /\ Counted(last_sort_info, op'.from).count >= 3
                => NormViews(datasets', heap') = captured]_vars

\* C17: round trip.  A store built from the X column and one Y column of a
\* file, projected into the grid's rows (one X cell, one Y cell and one colour
\* cell per row) and rebuilt from exactly those rows, is a series with the
\* same name whose x and y equal the original x and y, row for row.  The
\* rebuild is the one the grid triggers when only a colour cell is changed.
C17_FileGridRoundTrip ==
    [][(version = "v3.2.1"
        /\ op.name \in {"load_excel_file", "update_data_from_file_input"}
        /\ Len(datasets) = 1 /\ ~raised
        /\ op'.name = "pick_color_for_cell" /\ ~raised') =>
        /\ Len(datasets') = 1
        /\ LET old == View(datasets[1], heap)
               new == View(datasets'[1], heap')
           IN  /\ new.name = old.name
               /\ Len(new.x) = Len(old.x)
               /\ Len(new.y) = Len(old.y)
               /\ \A r \in 1..Len(old.x) : PyEq(new.x[r], old.x[r])
               /\ \A r \in 1..Len(old.y) : PyEq(new.y[r], old.y[r])
      ]_vars

\* the cells a paste of `lines` at column col writes into a grid of ncols
\* columns
RECURSIVE Written(_, _, _)
Written(lines, col, ncols) ==
    IF lines = <<>> THEN 0
    ELSE Cardinality({j \in 1..Len(Head(lines)) : col + j - 1 < ncols})
         + Written(Tail(lines), col, ncols)

\* C23: a paste of a block of k >= 1 cells into the grid produces exactly one
\* store rebuild: the k cell writes happen with the flag held and trigger no
\* rebuild, and after the flag is cleared update_data_from_table runs once
\* and rebuilds every series from the whole grid (all rows and all Y/colour
\* column pairs), not only from the pasted cells.
C23_PasteRebuildsOnce ==
    [][(version \in {"v3.2.1", "v3.4.2"} /\ op'.name = "paste_data") =>
        /\ ~raised'
        /\ ignored' = Written(op'.lines, op'.to, data_table.ncols)
        /\ rebuilds' = 0
        /\ built' = 1
        /\ is_updating_table' = FALSE
        /\ Len(datasets') = Pairs(data_table')
        /\ \A i \in 1..Len(datasets') :
              /\ heap'[datasets'[i].x] = ColumnValues(data_table', 0, ParseFloat)
              /\ heap'[datasets'[i].y]
                    = ColumnValues(data_table', 2 * i - 1, ParseFloat)
      ]_vars

\* two cells were pasted below the last row of a grid that shows a series of
\* two rows: the grid grew and the series was rebuilt with three rows
C23_Witness ==
    /\ version \in {"v3.2.1", "v3.4.2"}
    /\ op.name = "paste_data"
    /\ Len(op.lines) = 2
    /\ op.from = 1
    /\ ignored = 2
    /\ built = 1
    /\ Len(datasets) = 1
    /\ Len(heap[datasets[1].y]) = 3

\* the value v stored for a cell is typed by that cell's text alone: a number
\* when the text parses as one, the text itself when it does not
CellTyped(cell, v) ==
    (cell.item /\ cell.text # "") =>
        IF IsNumText(cell.text)
        THEN IsNumber(v) /\ v.n = NumOf(cell.text)
        ELSE v = PyStr(cell.text)

\* every series holds, row for row, the typed cells of its X and Y columns
TypedFromGrid(dss, h, tbl) ==
    \A i \in 1..Len(dss) :
        i <= Pairs(tbl) =>
            /\ Len(h[dss[i].x]) = RowCount(tbl)
            /\ Len(h[dss[i].y]) = RowCount(tbl)
            /\ \A r \in 1..RowCount(tbl) :
                  /\ CellTyped(tbl.rows[r][1], h[dss[i].x][r])
                  /\ CellTyped(tbl.rows[r][2 * i], h[dss[i].y][r])

\* C24: rebuilding the store from the grid types each cell independently: a
\* cell whose text parses as a number is stored as a number and a cell whose
\* text does not parse is kept as its text, without raising and without
\* changing how the other cells of the column are typed, both in the
\* cell-edit rebuild (update_data_from_table) and in the rebuild of a sort
\* click (on_table_sort).
C24_CellsTypedIndependently ==
    [][(/\ version \in {"v3.2.1", "v3.4.2"}
        /\ ~raised
        /\ \/ op'.name = "edit_cell" /\ ~is_updating_table
           \/ /\ op'.name = "header_click"
              /\ Counted(last_sort_info, op'.from).count < 3
              /\ RowCount(data_table) > 0) =>
        /\ ~raised'
        /\ TypedFromGrid(datasets', heap', data_table')
      ]_vars

\* C26: a failed file import (an unsupported extension, a corrupt file or
\* any other read error) shows the user an error and leaves datasets,
\* original_datasets, excel_data and data_source exactly as they were before
\* the attempt.
C26_FailedImportLeavesStore ==
    [][op'.name = "load_excel_file_fails" =>
        /\ emitted' # <<>>
        /\ Views(datasets', heap') = Views(datasets, heap)
        /\ Views(original_datasets', heap') = Views(original_datasets, heap)
        /\ excel_data' = excel_data
        /\ data_source' = data_source
      ]_vars

-----------------------------------------------------------------------------
(* Properties of the smoothing (SpecSmooth) *)

\* the series as the store of SpecSmooth was made
SmoothStoreAsMade ==
    \E kinds \in UNION {[1..n -> 1..Len(SeriesKinds)] : n \in 1..MaxSeries} :
        LET r == KindStore(kinds, [ds |-> <<>>, h |-> <<>>])
        IN  datasets = r.ds /\ heap = r.h

\* C25: computing smoothed curves during a redraw never changes any series'
\* x, y or colors in datasets, and each smoothed result is attached to the
\* series index it was computed from, whatever order the workers finish in
\* and whether or not a worker reports an error.
C25_SmoothingLeavesStoreAndKeepsIndex ==
    /\ SmoothStoreAsMade
    /\ smooth_pc = "drawn" =>
          \A i \in 1..Len(datasets) :
              smooth_results[i] # NoCurve =>
                  /\ AllNumeric(heap[datasets[i].x])
                  /\ AllNumeric(heap[datasets[i].y])
                  /\ smooth_results[i].curve
                        = Knots(heap[datasets[i].x], heap[datasets[i].y])

\* a label series followed by a numeric one: the only task is the second
\* series', and its curve is stored under index 1
C25_Witness ==
    /\ smooth_pc = "drawn"
    /\ Len(datasets) = 2
    /\ ~AllNumeric(heap[datasets[1].y])
    /\ Len(pool_tasks) = 1
    /\ smooth_results[1] = NoCurve
    /\ smooth_results[2] # NoCurve

-----------------------------------------------------------------------------
(* Properties of the templates (SpecTemplate) *)

\* C27: a template whose loading fails part-way (a value of the wrong shape
\* makes set_settings raise after earlier keys were processed) is reported
\* as an error and leaves every style setting as it was: no prefix of the
\* template's keys remains applied.
C27_FailedTemplateLeavesSettings ==
    [][op'.name = "load_template" /\ emitted' # <<"information">> =>
        /\ emitted' = <<"critical">>
        /\ widgets' = widgets
        /\ plot_color_hex' = plot_color_hex
        /\ line_color_hex' = line_color_hex
      ]_vars

-----------------------------------------------------------------------------
(* Properties of the debounced redraw (SpecTimer) *)

-----------------------------------------------------------------------------
(* Properties of the grid of v1.0 (SpecClick) *)

\* C30: in v1.0, after any number of repopulations of the grid, one click on
\* a colour cell invokes pick_color_for_cell exactly once: the number of
\* click-handler connections does not grow with the redraws or the rows.
C30_OneClickOneCall ==
    (op.name = "cell_clicked" /\ op.to = 2) => invoked = 1

====
